---------------------------- MODULE Spec2Model ----------------------------
(***************************************************************************)
(* State-machine models of components of the Tock kernel tree, each with   *)
(* its own specification:                                                  *)
(*                                                                         *)
(*   - the screen split multiplexer (capsules/extra/src/screen_split.rs),  *)
(*     SpecSplit, SpecSplitFar, SpecSplitSteady;                           *)
(*   - the VirtIO GPU screen driver                                        *)
(*     (chips/virtio/src/devices/virtio_gpu.rs), SpecGPU, SpecGPUDevice;   *)
(*   - the process credential checker and the signature checking policy    *)
(*     (kernel/src/process_checker.rs, process_checker/signature.rs),      *)
(*     SpecChecker, SpecCheckerFair, SpecSig;                              *)
(*   - the ECDSA P-256 verifier, the command restrictions, the virtual     *)
(*     LEDs and screen adapters, the VirtIO input driver and the pure      *)
(*     functions of the kernel, in the sections that follow.               *)
(*                                                                         *)
(* Every handler of the code is one action.  A handler's body is written   *)
(* as an operator from a record of the component's fields to the record    *)
(* after the handler, so that the nested calls of the code (a completion   *)
(* callback that calls the client, which calls back into the capsule) are  *)
(* nested operator applications.                                           *)
(***************************************************************************)
EXTENDS Integers, Sequences, FiniteSets, TLC

VARIABLES
    \* ---- ScreenSplitSection fields, one per section ----
    pending,          \* ScreenSplitSection.pending
    write_frame,      \* ScreenSplitSection.write_frame
    \* ---- ScreenSplit fields ----
    current_user,     \* ScreenSplit.current_user
    deferred_call,    \* ScreenSplit.deferred_call is set
    \* ---- the real screen below the multiplexer and the two clients above ----
    dev,              \* the command the real screen is executing
    clientBufs,       \* buffers each section's client holds
    \* ---- history of the run (not program state) ----
    splitLog,         \* what was accepted, delivered and issued so far,
                      \* the build and whether the kernel has panicked
    \* ---- VirtIOGPU fields ----
    gpu_state,                    \* VirtIOGPU.state
    pending_deferred_call_mask,   \* the SetWriteFrame bit of the mask
    req_resp_buffers,             \* the request/response buffers are held
    current_draw_area,            \* (draw area, draw offset, remaining pixels)
    write_buffer_subslice_range,  \* active range of the client's buffer
    write_buffer_offset,          \* bytes of the client's buffer processed
    write_buffer,                 \* the client's buffer while attached
    current_transfer_area_pixels, \* (rect being transferred, its pixels)
    \* ---- the VirtIO control queue and the kernel ----
    control_queue,    \* the command the device has not answered yet
    gpuPanic,         \* the kernel has panicked in the driver
    \* ---- history of the run (not program state) ----
    gpuLog,
    \* ---- kernel::process_checker::ProcessCheckerMachine ----
    footer_index,     \* the next footer to examine
    process_binary,   \* the held ProcessBinary, or NoBinary
    policy,           \* the installed CredentialsCheckingPolicy
    \* ---- a policy that answers each footer as the footer prescribes ----
    scripted_pending, \* the index of the footer it is checking, or -1
    \* ---- kernel::process_checker::signature::AppCheckerSignature ----
    sig_hash,         \* the hash buffer is in the MapCell
    sig_signature,    \* the signature buffer is in the MapCell
    sig_credentials,  \* the index of the footer held as credentials, or -1
    sig_binary,       \* a binary slice is held
    \* ---- the hasher and the verifier it drives ----
    hasher,           \* the operation whose callback is to come
    verifier,         \* the operation whose callback is to come
    \* ---- history of the run (not program state) ----
    chkLog,
    \* ---- the kernel's process table ----
    processes,        \* per slot: a process (identity, version, state) or none
    \* ---- capsules/ecdsa_sw: EcdsaP256SignatureVerifier ----
    ecdsa_verified,   \* the result of the last verification
    ecdsa_verifying_key,     \* a verifying key is held
    ecdsa_hash_storage,      \* the hash buffer held, or 0
    ecdsa_signature_storage, \* the signature buffer held, or 0
    ecdsa_deferred_call,     \* the deferred call is set
    ecdsa_state,      \* the operation to report at the deferred call
    \* ---- history of the run (not program state) ----
    ecdsaLog,
    \* ---- a call of a function without state, and what it returned ----
    fn_call,
    fn_result,
    \* ---- capsules/extra: ScreenARGB8888ToMono8BitPage (fields, history) ----
    mono,
    \* ---- capsules/extra: ScreenOnLed (fields, history) ----
    onled,
    \* ---- arch/x86: the stored state of a process (fields, history) ----
    boundary,
    \* ---- chips/virtio: VirtIOInput (fields, its two queues, history) ----
    vinput

splitVars == <<pending, write_frame, current_user, deferred_call, dev,
               clientBufs, splitLog>>

gpuVars == <<gpu_state, pending_deferred_call_mask, req_resp_buffers,
             current_draw_area, write_buffer_subslice_range, write_buffer_offset,
             write_buffer, current_transfer_area_pixels, control_queue, gpuPanic,
             gpuLog>>

chkVars == <<footer_index, process_binary, policy, scripted_pending, sig_hash,
             sig_signature, sig_credentials, sig_binary, hasher, verifier,
             chkLog>>

procVars == <<processes>>

ecdsaVars == <<ecdsa_verified, ecdsa_verifying_key, ecdsa_hash_storage,
               ecdsa_signature_storage, ecdsa_deferred_call, ecdsa_state,
               ecdsaLog>>

fnVars == <<fn_call, fn_result>>

auxVars == <<mono, onled, boundary, vinput>>

vars == <<splitVars, gpuVars, chkVars, procVars, ecdsaVars, fnVars, auxVars>>

-----------------------------------------------------------------------------
(***************************************************************************)
(*                        SCREEN SPLIT MULTIPLEXER                         *)
(***************************************************************************)

\* Accepted operations per section after which its client issues no more.
MaxOps == 2

\* The two sections: the kernel split and the userspace split.
Sections == {"K", "U"}

Other(s) == IF s = "K" THEN "U" ELSE "K"

\* Buffers a client owns; a write hands one to the section.
ClientBuffers == {1, 2}

Rect(x, y, w, h) == [x |-> x, y |-> y, width |-> w, height |-> h]

\* The rectangle of the real screen each section was constructed with.
SplitFrame == [s \in Sections |->
                 IF s = "K" THEN Rect(0, 0, 4, 2) ELSE Rect(0, 2, 4, 2)]

\* The relative frame a client asks for (a section starts with its whole
\* frame): one that runs over the section's far edges.
RelFrames == {Rect(3, 1, 3, 3)}

Min(a, b) == IF a <= b THEN a ELSE b

\* ScreenSplitOperation: None, WriteSetFrame or WriteBuffer(buf, continue).
NoOp == [type |-> "None", buf |-> 0, cont |-> FALSE]
OpWriteSetFrame == [type |-> "WriteSetFrame", buf |-> 0, cont |-> FALSE]
OpWriteBuffer(b, c) == [type |-> "WriteBuffer", buf |-> b, cont |-> c]

\* ScreenSplit.current_user: the section and the ScreenSplitState.
NoUser == [split |-> "None", state |-> "None", buf |-> 0, cont |-> FALSE]
User(s, state, b, c) == [split |-> s, state |-> state, buf |-> b, cont |-> c]

DevIdle == [op |-> "idle", frame |-> Rect(0, 0, 0, 0), buf |-> 0, cont |-> FALSE]

\* No write_complete was forwarded to a section (in this handler).
NoForward == [split |-> "None", buf |-> 0, sameResult |-> FALSE,
              userCleared |-> FALSE]

\* The section's fields after ScreenSplitSection::new.
SectionInitWriteFrame == [s \in Sections |->
                            Rect(0, 0, SplitFrame[s].width, SplitFrame[s].height)]

EmptyLog == [accepted   |-> [s \in Sections |-> << >>],
             delivered  |-> [s \in Sections |-> << >>],
             busyWhileOutstanding |-> FALSE,
             okWhileOutstanding   |-> FALSE,
             devOwner   |-> "None",
             overlap    |-> FALSE,
             issuedWhileUser |-> FALSE,
             rejected   |-> FALSE,
             submitted  |-> [s \in Sections |-> NoOp],
             forward    |-> NoForward,
             overflow_checks |-> FALSE,
             panicked   |-> FALSE]

\* The component's fields as one record, with the return value of the call
\* in progress, whether the real screen accepts the commands it is given
\* during this handler, whether the kernel is built with overflow checks
\* and whether it has panicked.
SplitState(accept) ==
    [pending |-> pending, write_frame |-> write_frame,
     current_user |-> current_user, deferred_call |-> deferred_call,
     dev |-> dev, screenErr |-> ~accept, clientBufs |-> clientBufs,
     devResult |-> "none",
     log |-> [splitLog EXCEPT !.forward = NoForward],
     overflow_checks |-> splitLog.overflow_checks,
     panic |-> splitLog.panicked,
     ret |-> "Ok"]

SplitCommit(st) ==
    /\ pending' = st.pending
    /\ write_frame' = st.write_frame
    /\ current_user' = st.current_user
    /\ deferred_call' = st.deferred_call
    /\ dev' = st.dev
    /\ clientBufs' = st.clientBufs
    /\ splitLog' = [st.log EXCEPT !.overflow_checks = st.overflow_checks,
                                  !.panicked = st.panic]
    /\ UNCHANGED <<gpuVars, chkVars, procVars, ecdsaVars, fnVars, auxVars>>

\* An operation of section s is outstanding: accepted and not yet completed.
Outstanding(st, s) == Len(st.log.accepted[s]) > Len(st.log.delivered[s])

\* The largest usize of the modelled machine word.
UsizeMax == 63
Usize == 0..UsizeMax

\* usize `+`: with overflow checks an overflow aborts, without them the sum
\* wraps.
UsizeOverflows(a, b) == a + b > UsizeMax
UsizeAdd(a, b) == (a + b) % (UsizeMax + 1)

\* Whether one of the sums of calculate_absolute_frame overflows: the
\* offsets added to the allotment's corner, or the allotment's far edges.
calculate_absolute_frame_overflows(split_frame, active_frame) ==
    \/ UsizeOverflows(split_frame.x, active_frame.x)
    \/ UsizeOverflows(split_frame.y, active_frame.y)
    \/ UsizeOverflows(split_frame.x, split_frame.width)
    \/ UsizeOverflows(split_frame.y, split_frame.height)

\* ScreenSplit::calculate_absolute_frame, where no overflow check aborts it
\* (call_screen asks calculate_absolute_frame_overflows first):
\* every sum is a usize sum.  The differences do not go below zero, the
\* minuend being the far edge the subtrahend was clamped to.
calculate_absolute_frame(split_frame, active_frame) ==
    LET far_x == UsizeAdd(split_frame.x, split_frame.width)
        far_y == UsizeAdd(split_frame.y, split_frame.height)
        absolute_x == Min(far_x, UsizeAdd(split_frame.x, active_frame.x))
        absolute_y == Min(far_y, UsizeAdd(split_frame.y, active_frame.y))
        absolute_w == Min(far_x - absolute_x, active_frame.width)
        absolute_h == Min(far_y - absolute_y, active_frame.height)
    IN Rect(absolute_x, absolute_y, absolute_w, absolute_h)

\* The real screen receives a command on behalf of section s.  It refuses
\* (the call returns an error) when it is told to, or when it is executing
\* another command.  The history records who the command was for and whether
\* the multiplexer had a current user at that instant; a refused operation
\* is no longer submitted.
ScreenIssue(st, s, cmd) ==
    LET busy == st.dev.op # "idle"
        ok   == ~st.screenErr /\ ~busy
        lg   == [st.log EXCEPT
                   !.overlap = @ \/ busy,
                   !.issuedWhileUser = @ \/ (st.current_user.split # "None"),
                   !.rejected = @ \/ ~ok,
                   !.submitted[s] =
                       IF ~ok /\ (cmd.op = "set_write_frame" \/ @.buf = cmd.buf)
                       THEN NoOp ELSE @,
                   !.devOwner = IF ok THEN s ELSE @]
    IN [st EXCEPT !.dev = IF ok THEN cmd ELSE @,
                  !.log = lg,
                  !.ret = IF ok THEN "Ok" ELSE "FAIL"]

\* A call_screen that gives the real screen the write at once, without
\* setting the frame first.
CallScreen_WriteAtOnce(st, split, operation) ==
    IF operation.type = "WriteSetFrame"
    THEN [st EXCEPT !.current_user = User(split, "SetFrame", 0, FALSE),
                    !.deferred_call = TRUE,
                    !.ret = "Ok"]
    ELSE LET r == ScreenIssue(st, split,
                     [op |-> "write", frame |-> st.dev.frame,
                      buf |-> operation.buf, cont |-> operation.cont])
         IN IF r.ret = "Ok"
            THEN [r EXCEPT !.current_user = User(split, "WriteBuffer", 0, FALSE)]
            ELSE r

\* ScreenSplit::call_screen.  In a kernel with overflow checks a sum of
\* calculate_absolute_frame that overflows is a panic: the operation, taken
\* out of the pending cell by request_operation, is lost with its buffer,
\* the real screen is given nothing and the call does not return.
CallScreen(st, split, operation) ==
    IF operation.type = "WriteSetFrame"
    THEN [st EXCEPT !.current_user = User(split, "SetFrame", 0, FALSE),
                    !.deferred_call = TRUE,
                    !.ret = "Ok"]
    ELSE IF /\ st.overflow_checks
            /\ calculate_absolute_frame_overflows(SplitFrame[split],
                                                  st.write_frame[split])
    THEN [st EXCEPT !.panic = TRUE, !.ret = "panic"]
    ELSE LET absolute_frame ==
                 calculate_absolute_frame(SplitFrame[split], st.write_frame[split])
             r == ScreenIssue(st, split,
                     [op |-> "set_write_frame", frame |-> absolute_frame,
                      buf |-> 0, cont |-> FALSE])
         IN IF r.ret = "Ok"
            THEN [r EXCEPT !.current_user =
                      User(split, "WriteSetFrame", operation.buf, operation.cont)]
            ELSE r

\* A request_operation that starts pending work although a section is the
\* current user.
RequestOperation_NoBusyCheck(st) ==
    IF st.panic
    THEN st
    ELSE IF st.pending["K"].type # "None"
    THEN CallScreen([st EXCEPT !.pending["K"] = NoOp], "K", st.pending["K"])
    ELSE IF st.pending["U"].type # "None"
    THEN CallScreen([st EXCEPT !.pending["U"] = NoOp], "U", st.pending["U"])
    ELSE [st EXCEPT !.ret = "Ok"]

\* ScreenSplit::request_operation; after a panic no code runs.
RequestOperation(st) ==
    IF st.panic
    THEN st
    ELSE IF st.current_user.split # "None"
    THEN [st EXCEPT !.ret = "Ok"]
    ELSE IF st.pending["K"].type # "None"
    THEN CallScreen([st EXCEPT !.pending["K"] = NoOp], "K", st.pending["K"])
    ELSE IF st.pending["U"].type # "None"
    THEN CallScreen([st EXCEPT !.pending["U"] = NoOp], "U", st.pending["U"])
    ELSE [st EXCEPT !.ret = "Ok"]

\* The history of a call of section s that returned: whether a call made
\* while an operation of s was outstanding returned BUSY or Ok, and the
\* operation when the call returned Ok; an operation that was started or
\* is left in the section's pending cell is submitted until a completion
\* callback reaches the section.
LogCall(before, after, s, op) ==
    [after EXCEPT
       !.log.busyWhileOutstanding =
           @ \/ (Outstanding(before, s) /\ after.ret = "BUSY"),
       !.log.okWhileOutstanding =
           @ \/ (Outstanding(before, s) /\ after.ret = "Ok"),
       !.log.accepted[s] = IF after.ret = "Ok"
                           THEN Append(@, [type |-> op.type, buf |-> op.buf])
                           ELSE @,
       !.log.submitted[s] = IF after.ret = "Ok" \/ after.pending[s] = op
                            THEN op ELSE @]

\* ScreenSplitSection::set_write_frame
SectionSetWriteFrame(st, s, frame) ==
    IF st.pending[s].type # "None"
    THEN LogCall(st, [st EXCEPT !.ret = "BUSY"], s, OpWriteSetFrame)
    ELSE LogCall(st,
                 RequestOperation([st EXCEPT !.write_frame[s] = frame,
                                             !.pending[s] = OpWriteSetFrame]),
                 s, OpWriteSetFrame)

\* ScreenSplitSection::write.  The buffer is moved into the call: the client
\* has it back only through write_complete.
SectionWrite(st, s, b, c) ==
    LET taken == [st EXCEPT !.clientBufs[s] = @ \ {b}]
    IN IF st.pending[s].type # "None"
       THEN LogCall(st, [taken EXCEPT !.ret = "BUSY"], s, OpWriteBuffer(b, c))
       ELSE LogCall(st,
                    RequestOperation([taken EXCEPT !.pending[s] = OpWriteBuffer(b, c)]),
                    s, OpWriteBuffer(b, c))

\* What a client does inside a completion callback: nothing, or a new
\* set_write_frame or write on its own section.
Reactions == {[kind |-> "none", frame |-> Rect(0, 0, 0, 0), cont |-> FALSE]}
             \cup {[kind |-> "set_write_frame", frame |-> f, cont |-> FALSE] :
                      f \in RelFrames}
             \cup {[kind |-> "write", frame |-> Rect(0, 0, 0, 0), cont |-> c] :
                      c \in BOOLEAN}

\* The buffer a client writes next: the first one it holds.
NextBuffer(held) == CHOOSE b \in held : \A c \in held : b <= c

\* The client of section s may start another operation.
ClientMayCall(st, s) == Len(st.log.accepted[s]) < MaxOps

\* The client's code inside command_complete / write_complete.
ClientReact(st, s, react) ==
    IF ~ClientMayCall(st, s) \/ react.kind = "none"
    THEN st
    ELSE IF react.kind = "set_write_frame"
    THEN SectionSetWriteFrame(st, s, react.frame)
    ELSE IF st.clientBufs[s] # {}
    THEN SectionWrite(st, s, NextBuffer(st.clientBufs[s]), react.cont)
    ELSE st

\* ScreenSplitSection::command_complete (ScreenClient)
SectionCommandComplete(st, s, react) ==
    ClientReact([st EXCEPT !.pending[s] = NoOp,
                           !.log.submitted[s] = NoOp,
                           !.log.delivered[s] =
                               Append(@, [type |-> "WriteSetFrame", buf |-> 0])],
                s, react)

\* ScreenSplitSection::write_complete (ScreenClient)
SectionWriteComplete(st, s, data, r, react) ==
    ClientReact([st EXCEPT !.pending[s] = NoOp,
                           !.clientBufs[s] = @ \cup {data},
                           !.log.submitted[s] = NoOp,
                           !.log.forward =
                               [split |-> s, buf |-> data,
                                sameResult |-> r = st.devResult,
                                userCleared |-> st.current_user = NoUser],
                           !.log.delivered[s] =
                               Append(@, [type |-> "WriteBuffer", buf |-> data])],
                s, react)

\* ScreenSplit::command_complete (ScreenClient)
MuxCommandComplete(st) ==
    IF st.current_user.split = "None"
    THEN st
    ELSE LET cu == st.current_user
             taken == [st EXCEPT !.current_user = NoUser]
         IN IF cu.state = "WriteSetFrame"
            THEN LET r == ScreenIssue(taken, cu.split,
                             [op |-> "write", frame |-> st.dev.frame,
                              buf |-> cu.buf, cont |-> cu.cont])
                 IN IF r.ret = "Ok"
                    THEN [r EXCEPT !.current_user =
                                       User(cu.split, "WriteBuffer", 0, FALSE)]
                    ELSE r
            ELSE taken

\* ScreenSplit::write_complete (ScreenClient)
MuxWriteComplete(st, data, r, react) ==
    LET cu == st.current_user
        forwarded == IF cu.split = "None"
                     THEN st
                     ELSE SectionWriteComplete([st EXCEPT !.current_user = NoUser],
                                               cu.split, data, r, react)
    IN RequestOperation(forwarded)

\* ScreenSplit::handle_deferred_call (DeferredCallClient)
HandleDeferredCall(st, react) ==
    LET cu == st.current_user
    IN IF cu.split = "None"
       THEN st
       ELSE SectionCommandComplete([st EXCEPT !.current_user = NoUser],
                                   cu.split, react)

-----------------------------------------------------------------------------
\* The actions of the screen split: calls of the two clients, completions
\* of the real screen, the deferred call.

\* The sections and the multiplexer after ScreenSplitSection::new,
\* ScreenSplit::new, set_kernel_split and set_userspace_split.
SplitFieldsNew ==
    /\ pending = [s \in Sections |-> NoOp]
    /\ write_frame = SectionInitWriteFrame
    /\ current_user = NoUser
    /\ deferred_call = FALSE
    /\ dev = DevIdle
    /\ clientBufs = [s \in Sections |-> ClientBuffers]

\* The new component in a kernel built without overflow checks; the frames
\* of RelFrames overflow no sum, so that with them the two builds agree.
SplitNew == SplitFieldsNew /\ splitLog = EmptyLog

\* Whether the real screen accepts the commands of a handler: it refuses
\* in at most one handler of a run.
ScreenAccepts == IF splitLog.rejected THEN {TRUE} ELSE BOOLEAN

\* A client calls set_write_frame on its section from the main loop.
ClientSetWriteFrame ==
    \E s \in Sections, f \in RelFrames, accept \in ScreenAccepts :
        /\ ~splitLog.panicked
        /\ ClientMayCall(SplitState(accept), s)
        /\ SplitCommit(SectionSetWriteFrame(SplitState(accept), s, f))

\* A client calls write on its section from the main loop.
ClientWrite ==
    \E s \in Sections, c \in BOOLEAN, accept \in ScreenAccepts :
        /\ ~splitLog.panicked
        /\ ClientMayCall(SplitState(accept), s)
        /\ clientBufs[s] # {}
        /\ SplitCommit(SectionWrite(SplitState(accept), s,
                                    NextBuffer(clientBufs[s]), c))

\* A relative frame whose offset, added to the userspace section's corner,
\* is beyond the largest usize.
FarFrame == Rect(0, UsizeMax - 1, 1, 1)

\* The userspace client asks for the far frame.
ClientSetFarFrame ==
    \E accept \in ScreenAccepts :
        /\ ~splitLog.panicked
        /\ ClientMayCall(SplitState(accept), "U")
        /\ SplitCommit(SectionSetWriteFrame(SplitState(accept), "U", FarFrame))

\* The real screen completes its set_write_frame.
ScreenCommandComplete ==
    /\ ~splitLog.panicked
    /\ dev.op = "set_write_frame"
    /\ \E accept \in ScreenAccepts :
          SplitCommit(MuxCommandComplete(
              [SplitState(accept) EXCEPT !.dev = [DevIdle EXCEPT !.frame = dev.frame]]))

\* The results with which the real screen completes a write.
WriteResults == {"Ok", "FAIL"}

\* The real screen completes its write and returns the buffer.
ScreenWriteComplete ==
    /\ ~splitLog.panicked
    /\ dev.op = "write"
    /\ \E react \in Reactions, accept \in ScreenAccepts, r \in WriteResults :
          SplitCommit(MuxWriteComplete(
              [SplitState(accept) EXCEPT !.dev = DevIdle, !.devResult = r],
              dev.buf, r, react))

\* The kernel dispatches the multiplexer's deferred call.
DeferredCallDispatch ==
    /\ ~splitLog.panicked
    /\ deferred_call
    /\ \E react \in Reactions, accept \in ScreenAccepts :
          SplitCommit(HandleDeferredCall(
              [SplitState(accept) EXCEPT !.deferred_call = FALSE], react))

-----------------------------------------------------------------------------
(***************************************************************************)
(*                         VIRTIO GPU SCREEN DRIVER                        *)
(***************************************************************************)

\* The resolution the driver is constructed with.
GpuWidth == 3
GpuHeight == 3

PIXEL_STRIDE == 4

\* Rect::empty and Rect::is_empty
RectEmpty == Rect(0, 0, 0, 0)
is_empty(r) == r.width = 0 /\ r.height = 0

\* ceiling division of naturals, usize::div_ceil
DivCeil(a, b) == (a + b - 1) \div b

NoCmd == [type |-> "None", r |-> RectEmpty, offset |-> 0]
Cmd(t) == [type |-> t, r |-> RectEmpty, offset |-> 0]

\* The empty write_buffer cell (MapCell holding None): not a buffer, and
\* so different from a buffer of zero bytes.
NoBuffer == [cap |-> -1, start |-> 0, end |-> 0]

\* The client's buffers: a slice of cap bytes with an active range.
\* SubSliceMut::len is the length of the active range.
BufferCap == PIXEL_STRIDE * (GpuWidth * GpuHeight + 2)
SubSliceLen(b) == b.end - b.start
SubSlice(start, len) == [cap |-> BufferCap, start |-> start, end |-> start + len]
GpuBuffers ==
    {SubSlice(0, PIXEL_STRIDE * n) : n \in 0..GpuWidth \cup {GpuWidth * GpuHeight}}
        \cup {SubSlice(PIXEL_STRIDE, PIXEL_STRIDE * n) : n \in {1, GpuWidth}}
        \cup {SubSlice(0, 2)}

\* The frames the client asks for: the whole screen, a part of it, one that
\* leaves the screen, the empty one and one of no width.
GpuFrames ==
    {Rect(0, 0, GpuWidth, GpuHeight), Rect(1, 1, GpuWidth - 1, GpuHeight - 1),
     Rect(1, 0, GpuWidth, GpuHeight), Rect(0, 0, 0, 0), Rect(0, 1, 0, 1)}

\* SubSliceMut::new(whole) followed by SubSliceMut::slice(range): the new
\* active range is the given one taken relative to the old one and cut at
\* the old end.
SubSliceNewSlice(cap, range) ==
    LET new_start == Min(0 + range.start, cap)
        new_end   == Min(new_start + (range.end - range.start), cap)
    IN [cap |-> cap, start |-> new_start, end |-> new_end]

EmptyGpuLog == [writeN |-> 0, sent |-> 0, completed |-> FALSE,
                given |-> NoBuffer, returned |-> NoBuffer,
                lastResp |-> "None", completeAfter |-> "None",
                atComplete |-> [state |-> "None", buffers |-> FALSE],
                ret |-> "none",
                call |-> [op |-> "none", before |-> "None"],
                outstanding |-> 0,
                initCmds |-> <<>>, ready |-> 0, readyAfter |-> "None",
                errResp |-> FALSE,
                resp |-> [before |-> "None", type |-> "None",
                          ready |-> 0, completed |-> FALSE]]

GpuRecord ==
    [state |-> gpu_state, mask |-> pending_deferred_call_mask,
     buffers |-> req_resp_buffers, area |-> current_draw_area,
     range |-> write_buffer_subslice_range, offset |-> write_buffer_offset,
     wbuf |-> write_buffer, xfer |-> current_transfer_area_pixels,
     queue |-> control_queue, panic |-> gpuPanic, log |-> gpuLog]

GpuCommit(g) ==
    /\ gpu_state' = g.state
    /\ pending_deferred_call_mask' = g.mask
    /\ req_resp_buffers' = g.buffers
    /\ current_draw_area' = g.area
    /\ write_buffer_subslice_range' = g.range
    /\ write_buffer_offset' = g.offset
    /\ write_buffer' = g.wbuf
    /\ current_transfer_area_pixels' = g.xfer
    /\ control_queue' = g.queue
    /\ gpuPanic' = g.panic
    /\ gpuLog' = g.log
    /\ UNCHANGED <<splitVars, chkVars, procVars, ecdsaVars, fnVars, auxVars>>

\* panic!, a failed assert! or a failed unwrap: the kernel stops.
Panic(g) == [g EXCEPT !.panic = TRUE]

\* The states of VirtIOGPUState in which initialization is under way
InitializingStates ==
    {"InitializingResourceCreate2D", "InitializingResourceAttachBacking",
     "InitializingSetScanout", "InitializingResourceDetachBacking"}

\* control_queue.provide_buffer_chain with the encoded request, and the
\* driver's next state.
Provide(g, cmd, next) ==
    [g EXCEPT !.queue = cmd, !.state = next,
              !.log.outstanding = @ + 1,
              !.log.initCmds = IF next \in InitializingStates
                               THEN Append(@, cmd.type) ELSE @,
              !.log.sent = IF cmd.type = "TRANSFER_TO_HOST_2D"
                           THEN @ + cmd.r.width * cmd.r.height ELSE @]

\* VirtIOGPU::continue_draw_resource_detached_backing
continue_draw_resource_detached_backing(g) ==
    IF g.wbuf = NoBuffer
    THEN Panic(g)
    ELSE LET subslice == SubSliceNewSlice(g.wbuf.cap, g.range)
         IN [g EXCEPT !.buffers = TRUE,
                      !.state = "Idle",
                      !.wbuf = NoBuffer,
                      !.log.completed = TRUE,
                      !.log.returned = subslice,
                      !.log.completeAfter = g.log.lastResp,
                      !.log.atComplete = [state |-> "Idle", buffers |-> TRUE]]

\* The number of pixels continue_draw_transfer_to_host_2d transfers next;
\* -1 when one of its assertions, unwraps or divisions fails.
TransferPixels(g) ==
    LET draw_rect == g.area.rect
        current_draw_offset == g.area.off
        remaining_pixels == g.area.remaining
        range_len == IF g.range.end >= g.range.start
                     THEN g.range.end - g.range.start ELSE 0
        write_buffer_remaining_bytes == range_len - g.offset
        write_buffer_remaining_pixels == write_buffer_remaining_bytes \div PIXEL_STRIDE
    IN IF write_buffer_remaining_bytes < 0 THEN -1
       ELSE IF write_buffer_remaining_bytes % PIXEL_STRIDE # 0 THEN -1
       ELSE IF write_buffer_remaining_pixels > remaining_pixels THEN -1
       ELSE IF is_empty(draw_rect) THEN 0
       ELSE IF current_draw_offset[1] = 0
       THEN IF ~(current_draw_offset[2] <= draw_rect.height \/ remaining_pixels = 0)
            THEN -1
            ELSE IF current_draw_offset[2] >= draw_rect.height
            THEN IF draw_rect.width >= write_buffer_remaining_pixels
                 THEN write_buffer_remaining_pixels
                 ELSE -1
            ELSE IF draw_rect.width = 0
                 THEN -1
                 ELSE (write_buffer_remaining_pixels \div draw_rect.width)
                          * draw_rect.width
       ELSE IF draw_rect.width < current_draw_offset[1]
            THEN -1
            ELSE Min(draw_rect.width - current_draw_offset[1],
                     write_buffer_remaining_pixels)

\* A driver that reports the write as soon as nothing is left to transfer,
\* without detaching the buffer from the resource first.
continue_draw_transfer_to_host_2d_NoDetach(g) ==
    LET transfer_pixels == TransferPixels(g)
        draw_rect == g.area.rect
    IN IF transfer_pixels = -1
       THEN Panic(g)
       ELSE IF transfer_pixels = 0
       THEN continue_draw_resource_detached_backing(g)
       ELSE LET transfer_rect ==
                    Rect(draw_rect.x + g.area.off[1],
                         draw_rect.y + g.area.off[2],
                         Min(transfer_pixels, draw_rect.width),
                         DivCeil(transfer_pixels, draw_rect.width))
            IN Provide([g EXCEPT !.xfer = [r |-> transfer_rect,
                                           pixels |-> transfer_pixels]],
                       [type |-> "TRANSFER_TO_HOST_2D", r |-> transfer_rect,
                        offset |-> g.offset],
                       "DrawTransferToHost2D")

\* VirtIOGPU::continue_draw_transfer_to_host_2d
continue_draw_transfer_to_host_2d(g) ==
    LET transfer_pixels == TransferPixels(g)
        draw_rect == g.area.rect
    IN IF transfer_pixels = -1
       THEN Panic(g)
       ELSE IF transfer_pixels = 0
       THEN Provide(g, Cmd("RESOURCE_DETACH_BACKING"), "DrawResourceDetachBacking")
       ELSE LET transfer_rect ==
                    Rect(draw_rect.x + g.area.off[1],
                         draw_rect.y + g.area.off[2],
                         Min(transfer_pixels, draw_rect.width),
                         DivCeil(transfer_pixels, draw_rect.width))
            IN Provide([g EXCEPT !.xfer = [r |-> transfer_rect,
                                           pixels |-> transfer_pixels]],
                       [type |-> "TRANSFER_TO_HOST_2D", r |-> transfer_rect,
                        offset |-> g.offset],
                       "DrawTransferToHost2D")

\* VirtIOGPU::continue_draw_resource_flush
continue_draw_resource_flush(g) ==
    Provide(g, [type |-> "RESOURCE_FLUSH", r |-> g.xfer.r, offset |-> 0],
            "DrawResourceFlush")

\* VirtIOGPU::continue_draw_resource_flushed
continue_draw_resource_flushed(g) ==
    LET draw_rect == g.area.rect
        drawn_area == g.xfer.r
        drawn_pixels == g.xfer.pixels
        x1 == drawn_area.x + drawn_area.width - draw_rect.x
        y1 == drawn_area.y + drawn_area.height - draw_rect.y
        wrap == x1 = draw_rect.width
        off == IF wrap THEN <<0, y1 + 1>> ELSE <<x1, y1>>
    IN IF x1 < 0 \/ y1 < 0 THEN Panic(g)
       ELSE IF ~(x1 <= draw_rect.width) THEN Panic(g)
       ELSE IF ~(g.area.remaining >= drawn_pixels) THEN Panic(g)
       ELSE continue_draw_transfer_to_host_2d(
                [g EXCEPT !.area = [rect |-> draw_rect, off |-> off,
                                    remaining |-> g.area.remaining - drawn_pixels],
                          !.offset = @ + drawn_pixels * PIXEL_STRIDE])

\* VirtIOGPU::initialize
initialize(g0) ==
    LET g == [g0 EXCEPT !.log.call = [op |-> "initialize", before |-> g0.state]]
    IN
    IF g.state # "Uninitialized"
    THEN [g EXCEPT !.log.ret = "ALREADY"]
    ELSE IF ~g.buffers
    THEN Panic(g)
    ELSE Provide([g EXCEPT !.buffers = FALSE, !.log.ret = "Ok"],
                 Cmd("RESOURCE_CREATE_2D"), "InitializingResourceCreate2D")

\* The response to RESOURCE_CREATE_2D answered with SET_SCANOUT at once.
initialize_resource_create_2d_resp_SkipAttach(g) ==
    Provide(g, [type |-> "SET_SCANOUT", r |-> Rect(0, 0, GpuWidth, GpuHeight),
                offset |-> 0],
            "InitializingSetScanout")

\* VirtIOGPU::initialize_resource_create_2d_resp
initialize_resource_create_2d_resp(g) ==
    Provide(g, Cmd("RESOURCE_ATTACH_BACKING"), "InitializingResourceAttachBacking")

\* VirtIOGPU::initialize_resource_attach_backing_resp
initialize_resource_attach_backing_resp(g) ==
    Provide(g, [type |-> "SET_SCANOUT", r |-> Rect(0, 0, GpuWidth, GpuHeight),
                offset |-> 0],
            "InitializingSetScanout")

\* VirtIOGPU::initialize_set_scanout_resp
initialize_set_scanout_resp(g) ==
    Provide(g, Cmd("RESOURCE_DETACH_BACKING"), "InitializingResourceDetachBacking")

\* VirtIOGPU::initialize_resource_detach_backing_resp
initialize_resource_detach_backing_resp(g) ==
    [g EXCEPT !.buffers = TRUE, !.state = "Idle",
              !.log.ready = @ + 1,
              !.log.readyAfter = g.log.lastResp]

\* What buffer_chain_callback notes of a response: the driver's state and
\* the callbacks made so far when it arrives, and its ctrl_type.
ResponseSeen(g0, ctrl_type) ==
    [before |-> g0.state, type |-> ctrl_type,
     ready |-> g0.log.ready, completed |-> g0.log.completed]

\* A driver that goes on with the next step whatever the response says.
buffer_chain_callback_AnyResponse(g0, ctrl_type) ==
    LET g == [g0 EXCEPT !.queue = NoCmd, !.log.lastResp = g0.queue.type,
                        !.log.outstanding = @ - 1,
                        !.log.errResp = @ \/ ctrl_type # "RespOkNoData",
                        !.log.resp = ResponseSeen(g0, ctrl_type)]
    IN CASE g.state = "InitializingResourceCreate2D" ->
                initialize_resource_create_2d_resp(g)
         [] g.state = "InitializingResourceAttachBacking" ->
                initialize_resource_attach_backing_resp(g)
         [] g.state = "InitializingSetScanout" ->
                initialize_set_scanout_resp(g)
         [] g.state = "InitializingResourceDetachBacking" ->
                initialize_resource_detach_backing_resp(g)
         [] g.state = "DrawResourceAttachBacking" ->
                continue_draw_transfer_to_host_2d(g)
         [] g.state = "DrawTransferToHost2D" ->
                continue_draw_resource_flush(g)
         [] g.state = "DrawResourceFlush" ->
                continue_draw_resource_flushed(g)
         [] g.state = "DrawResourceDetachBacking" ->
                continue_draw_resource_detached_backing(g)
         [] OTHER -> Panic(g)

\* VirtIOGPU::buffer_chain_callback: the device has used the buffer chain and
\* its response carries ctrl_type.
buffer_chain_callback(g0, ctrl_type) ==
    LET g == [g0 EXCEPT !.queue = NoCmd, !.log.lastResp = g0.queue.type,
                        !.log.outstanding = @ - 1,
                        !.log.errResp = @ \/ ctrl_type # "RespOkNoData",
                        !.log.resp = ResponseSeen(g0, ctrl_type)]
    IN IF ctrl_type # "RespOkNoData" THEN Panic(g)
       ELSE CASE g.state = "InitializingResourceCreate2D" ->
                     initialize_resource_create_2d_resp(g)
              [] g.state = "InitializingResourceAttachBacking" ->
                     initialize_resource_attach_backing_resp(g)
              [] g.state = "InitializingSetScanout" ->
                     initialize_set_scanout_resp(g)
              [] g.state = "InitializingResourceDetachBacking" ->
                     initialize_resource_detach_backing_resp(g)
              [] g.state = "DrawResourceAttachBacking" ->
                     continue_draw_transfer_to_host_2d(g)
              [] g.state = "DrawTransferToHost2D" ->
                     continue_draw_resource_flush(g)
              [] g.state = "DrawResourceFlush" ->
                     continue_draw_resource_flushed(g)
              [] g.state = "DrawResourceDetachBacking" ->
                     continue_draw_resource_detached_backing(g)
              [] OTHER -> Panic(g)

\* set_write_frame without the test for Idle.
set_write_frame_NoIdleCheck(g0, x, y, width, height) ==
    LET g == [g0 EXCEPT !.log.call = [op |-> "set_write_frame", before |-> g0.state]]
    IN
    IF x + width > GpuWidth \/ y + height > GpuHeight
    THEN [g EXCEPT !.log.ret = "INVAL"]
    ELSE [g EXCEPT !.area = [rect |-> Rect(x, y, width, height),
                             off |-> <<0, 0>>,
                             remaining |-> width * height],
                   !.state = "SettingWriteFrame",
                   !.mask = TRUE,
                   !.log.outstanding = @ + 1,
                   !.log.ret = "Ok"]

\* VirtIOGPU::set_write_frame (Screen)
set_write_frame(g0, x, y, width, height) ==
    LET g == [g0 EXCEPT !.log.call = [op |-> "set_write_frame", before |-> g0.state]]
    IN
    IF g.state # "Idle"
    THEN [g EXCEPT !.log.ret = "BUSY"]
    ELSE IF x + width > GpuWidth \/ y + height > GpuHeight
    THEN [g EXCEPT !.log.ret = "INVAL"]
    ELSE [g EXCEPT !.area = [rect |-> Rect(x, y, width, height),
                             off |-> <<0, 0>>,
                             remaining |-> width * height],
                   !.state = "SettingWriteFrame",
                   !.mask = TRUE,
                   !.log.outstanding = @ + 1,
                   !.log.ret = "Ok"]

\* VirtIOGPU::write (Screen)
write(g0, buffer, continue_write) ==
    LET g == [g0 EXCEPT !.log.call = [op |-> "write", before |-> g0.state]]
    IN
    IF g.state # "Idle"
    THEN [g EXCEPT !.log.ret = "BUSY"]
    ELSE LET draw_rect == g.area.rect
             area == IF ~continue_write
                     THEN [rect |-> draw_rect, off |-> <<0, 0>>,
                           remaining |-> draw_rect.width * draw_rect.height]
                     ELSE g.area
             g1 == [g EXCEPT !.area = area]
         IN IF SubSliceLen(buffer) % PIXEL_STRIDE # 0
            THEN [g1 EXCEPT !.log.ret = "INVAL"]
            ELSE IF SubSliceLen(buffer) \div PIXEL_STRIDE > area.remaining
            THEN [g1 EXCEPT !.log.ret = "SIZE"]
            ELSE IF ~g1.buffers \/ g1.wbuf # NoBuffer
            THEN Panic(g1)
            ELSE Provide(
                   [g1 EXCEPT !.range = [start |-> buffer.start, end |-> buffer.end],
                              !.offset = 0,
                              !.buffers = FALSE,
                              !.wbuf = buffer,
                              !.log.ret = "Ok",
                              !.log.writeN = SubSliceLen(buffer) \div PIXEL_STRIDE,
                              !.log.sent = 0,
                              !.log.completed = FALSE,
                              !.log.given = buffer,
                              !.log.returned = NoBuffer,
                              !.log.completeAfter = "None"],
                   Cmd("RESOURCE_ATTACH_BACKING"), "DrawResourceAttachBacking")

\* VirtIOGPU::handle_deferred_call (DeferredCallClient)
handle_deferred_call(g) ==
    IF ~g.mask
    THEN g
    ELSE IF g.state # "SettingWriteFrame"
    THEN Panic([g EXCEPT !.mask = FALSE, !.log.outstanding = @ - 1])
    ELSE [g EXCEPT !.mask = FALSE, !.state = "Idle",
                   !.log.outstanding = @ - 1]

\* The driver after VirtIOGPU::new.
GpuNew ==
    /\ gpu_state = "Uninitialized"
    /\ pending_deferred_call_mask = FALSE
    /\ req_resp_buffers = TRUE
    /\ current_draw_area = [rect |-> RectEmpty, off |-> <<0, 0>>, remaining |-> 0]
    /\ write_buffer_subslice_range = [start |-> 0, end |-> 0]
    /\ write_buffer_offset = 0
    /\ write_buffer = NoBuffer
    /\ current_transfer_area_pixels = [r |-> RectEmpty, pixels |-> 0]
    /\ control_queue = NoCmd
    /\ gpuPanic = FALSE
    /\ gpuLog = EmptyGpuLog

\* The board calls initialize.
GpuInitialize ==
    /\ ~gpuPanic
    /\ GpuCommit(initialize(GpuRecord))

\* The client calls set_write_frame.
GpuSetWriteFrame ==
    /\ ~gpuPanic
    /\ \E f \in GpuFrames :
          GpuCommit(set_write_frame(GpuRecord, f.x, f.y, f.width, f.height))

\* The client calls write.
GpuWrite ==
    /\ ~gpuPanic
    /\ \E b \in GpuBuffers, c \in BOOLEAN :
          GpuCommit(write(GpuRecord, b, c))

\* The kernel dispatches the driver's deferred call.
GpuDeferredCall ==
    /\ ~gpuPanic
    /\ pending_deferred_call_mask
    /\ GpuCommit(handle_deferred_call(GpuRecord))

\* The ctrl_type values of the responses the device gives.
CtrlTypes == {"RespOkNoData", "RespErrUnspec"}

\* The device answers the command in the control queue.
GpuResponse ==
    /\ ~gpuPanic
    /\ control_queue.type # "None"
    /\ \E ctrl_type \in {"RespOkNoData", "RespErrUnspec"} :
          GpuCommit(buffer_chain_callback(GpuRecord, ctrl_type))

\* A device that does not keep to the protocol hands a used buffer chain to
\* the driver although the driver has no command in the control queue.
GpuUnsolicitedResponse ==
    /\ ~gpuPanic
    /\ control_queue.type = "None"
    /\ \E ctrl_type \in CtrlTypes :
          GpuCommit(buffer_chain_callback(GpuRecord, ctrl_type))

-----------------------------------------------------------------------------
(***************************************************************************)
(*          PROCESS CREDENTIAL CHECKER MACHINE AND SIGNATURE POLICY        *)
(***************************************************************************)

\* The longest footer region examined and the number of binaries one
\* machine is started on.
MaxFooters == 2
MaxStarts == 2

NoBinary == [footers |-> <<>>, end |-> "None"]
NoPolicy == [kind |-> "None", requires |-> FALSE]

\* How parsing fails behind the last footer of the region: there is not
\* enough flash for another footer, or what is there is no footer.
FooterEnds == {"PastLastFooter", "BadFooter"}

SeqsUpTo(S, n) == UNION {[1..k -> S] : k \in 0..n}

\* The footers given to the scripted policy carry its answer: a CheckResult
\* or an error given to check_done, or an error returned by check_credentials.
ScriptedAnswers == {"Accept", "Pass", "Reject", "Err", "NOSUPPORT", "ALREADY", "FAIL"}
ScriptedFooters == {[answer |-> a] : a \in ScriptedAnswers}
ScriptedBinaries ==
    {[footers |-> f, end |-> e] : f \in SeqsUpTo(ScriptedFooters, MaxFooters),
                                  e \in FooterEnds}

\* The footers given to AppCheckerSignature carry their format (the
\* configured credential type or another one) and what hasher.add_data
\* returns for them.
SigFooters ==
    {[format |-> "signature", add_data |-> "Ok"],
     [format |-> "signature", add_data |-> "FAIL"],
     [format |-> "other", add_data |-> "Ok"]}
SigBinaries ==
    {[footers |-> f, end |-> e] : f \in SeqsUpTo(SigFooters, MaxFooters),
                                  e \in FooterEnds}

\* ProcessCheckError, as the machine constructs its values: check names the
\* first variant NoAcceptedCredentials, and check_done builds the second
\* one without the index of the footer.
ResultOk == [kind |-> "Ok", index |-> -1]
NoAcceptedCredentials == [kind |-> "CredentialsNotAccepted", index |-> -1]
CredentialRejected == [kind |-> "CredentialsRejected", index |-> -1]
InternalError == [kind |-> "InternalError", index |-> -1]

EmptyChkLog == [starts |-> 0, binary |-> NoBinary, done |-> <<>>,
                submitted |-> <<>>, startedOk |-> 0, check_dones |-> 0,
                answers |-> {}, verifiedTrue |-> FALSE, rejectedAt |-> -1,
                policy |-> NoPolicy, withPolicy |-> FALSE]

ChkRecord ==
    [footer_index |-> footer_index, process_binary |-> process_binary,
     policy |-> policy, scripted_pending |-> scripted_pending,
     hash |-> sig_hash, signature |-> sig_signature,
     credentials |-> sig_credentials, binary |-> sig_binary,
     hasher |-> hasher, verifier |-> verifier, log |-> chkLog]

ChkCommit(m) ==
    /\ footer_index' = m.footer_index
    /\ process_binary' = m.process_binary
    /\ policy' = m.policy
    /\ scripted_pending' = m.scripted_pending
    /\ sig_hash' = m.hash
    /\ sig_signature' = m.signature
    /\ sig_credentials' = m.credentials
    /\ sig_binary' = m.binary
    /\ hasher' = m.hasher
    /\ verifier' = m.verifier
    /\ chkLog' = m.log
    /\ UNCHANGED <<splitVars, gpuVars, procVars, ecdsaVars, fnVars, auxVars>>

\* ProcessCheckerMachineClient::done: the machine's client is notified; the
\* history keeps the policy installed at that moment.
client_done(m, result) ==
    [m EXCEPT !.log.done = Append(@, result), !.log.policy = m.policy]

\* AppCredentialsChecker::check_credentials of the scripted policy
scripted_check_credentials(m, footer, index) ==
    IF footer.answer \in {"Accept", "Pass", "Reject", "Err"}
    THEN [m |-> [m EXCEPT !.scripted_pending = index], ret |-> "Ok"]
    ELSE [m |-> m, ret |-> footer.answer]

\* AppCheckerSignature::check_credentials
sig_check_credentials(m, footer, index) ==
    LET m1 == [m EXCEPT !.credentials = index]
    IN IF footer.format = "signature"
       THEN IF footer.add_data = "Ok"
            THEN [m |-> [m1 EXCEPT !.hasher = "add_data"], ret |-> "Ok"]
            ELSE [m |-> m1, ret |-> footer.add_data]
       ELSE [m |-> m1, ret |-> "NOSUPPORT"]

\* AppCheckerSignature::require_credentials
sig_require_credentials == TRUE

\* policy.check_credentials(footer, integrity_slice)
check_credentials(m, footer, index) ==
    LET r == IF m.policy.kind = "signature"
             THEN sig_check_credentials(m, footer, index)
             ELSE scripted_check_credentials(m, footer, index)
    IN [m |-> [r.m EXCEPT !.log.submitted = Append(@, index),
                          !.log.startedOk = IF r.ret = "Ok" THEN @ + 1 ELSE @],
        ret |-> r.ret]

\* policy.require_credentials()
require_credentials(m) ==
    IF m.policy.kind = "signature" THEN sig_require_credentials
    ELSE m.policy.requires

\* ProcessCheckerMachine::check_footer: the footers are parsed one after
\* the other from the start of the region up to next_footer.
RECURSIVE check_footer_from(_, _, _, _)
check_footer_from(m, pb, next_footer, current_footer) ==
    IF ~(current_footer <= next_footer)
    THEN [m |-> m, result |-> "PastLastFooter"]
    ELSE IF current_footer >= Len(pb.footers)
    THEN [m |-> m, result |-> pb.end]
    ELSE IF current_footer = next_footer
    THEN LET r == check_credentials(m, pb.footers[current_footer + 1],
                                    current_footer)
         IN [m |-> r.m,
             result |-> CASE r.ret = "Ok" -> "Checking"
                          [] r.ret = "NOSUPPORT" -> "FooterNotCheckable"
                          [] r.ret = "ALREADY" -> "FooterNotCheckable"
                          [] OTHER -> "Error"]
    ELSE check_footer_from(m, pb, next_footer, current_footer + 1)

check_footer(m, pb, next_footer) == check_footer_from(m, pb, next_footer, 0)

\* ProcessCheckerMachine::check; with no policy installed it returns at
\* once, and the client is not notified.
RECURSIVE check(_)
check(m) ==
    LET pb == m.process_binary
        r == check_footer(m, pb, m.footer_index)
    IN CASE m.policy = NoPolicy -> m
         [] r.result = "Checking" -> r.m
         [] r.result \in {"PastLastFooter", "BadFooter"} ->
                client_done(r.m, IF require_credentials(r.m)
                                 THEN NoAcceptedCredentials
                                 ELSE ResultOk)
         [] r.result = "FooterNotCheckable" ->
                check([r.m EXCEPT !.footer_index = @ + 1])
         [] r.result = "Error" -> client_done(r.m, InternalError)

\* ProcessCheckerMachine::set_policy
set_policy(m, new_policy) == [m EXCEPT !.policy = new_policy]

\* ProcessCheckerMachine::start
start(m, pb) == check([m EXCEPT !.footer_index = 0, !.process_binary = pb])

\* ProcessCheckerMachine::next: the walk goes on with the footer at
\* footer_index while a binary is held.
next(m) == IF m.process_binary = NoBinary THEN m ELSE check(m)

\* A machine that takes the policy's Pass for its approval.
check_done_PassAccepts(m, result) ==
    next(CASE result \in {"Accept", "Pass"} ->
                  client_done([m EXCEPT !.process_binary = NoBinary,
                                        !.log.check_dones = @ + 1], ResultOk)
           [] result = "Reject" ->
                  client_done([m EXCEPT !.process_binary = NoBinary,
                                        !.log.check_dones = @ + 1],
                              CredentialRejected)
           [] OTHER -> [m EXCEPT !.footer_index = @ + 1,
                                 !.log.check_dones = @ + 1])

\* A machine that leaves footer_index alone when the policy passes.
check_done_NoAdvance(m0, result) ==
    LET m == [m0 EXCEPT !.log.check_dones = @ + 1]
    IN next(CASE result = "Accept" ->
                     client_done([m EXCEPT !.process_binary = NoBinary], ResultOk)
              [] result = "Pass" -> m
              [] result = "Reject" ->
                     client_done([m EXCEPT !.process_binary = NoBinary],
                                 CredentialRejected)
              [] OTHER -> [m EXCEPT !.footer_index = @ + 1])

\* ProcessCheckerMachine::check_done (process_checker::Client)
check_done(m0, result) ==
    LET m == [m0 EXCEPT !.log.check_dones = @ + 1]
    IN next(CASE result = "Accept" ->
                     client_done([m EXCEPT !.process_binary = NoBinary], ResultOk)
              [] result = "Pass" -> [m EXCEPT !.footer_index = @ + 1]
              [] result = "Reject" ->
                     client_done([m EXCEPT !.process_binary = NoBinary],
                                 CredentialRejected)
              [] OTHER -> [m EXCEPT !.footer_index = @ + 1])

\* The scripted policy gives its answer for the footer it is checking.
scripted_answer(m) ==
    LET index == m.scripted_pending
        answer == m.log.binary.footers[index + 1].answer
    IN check_done([m EXCEPT !.scripted_pending = -1,
                            !.log.rejectedAt = IF answer = "Reject" THEN index ELSE @],
                  answer)

\* AppCheckerSignature::add_data_done; run is what hasher.run returns.
add_data_done(m, result, run) ==
    IF result # "Ok"
    THEN m
    ELSE LET m1 == [m EXCEPT !.binary = TRUE]
         IN IF ~m1.hash
            THEN m1
            ELSE IF run = "Ok"
                 THEN [m1 EXCEPT !.hash = FALSE, !.hasher = "run"]
                 ELSE [m1 EXCEPT !.hash = FALSE]

\* AppCheckerSignature::hash_done; verify is what verifier.verify returns.
hash_done(m, result, verify) ==
    IF result # "Ok"
    THEN m
    ELSE IF ~m.signature
         THEN m
         ELSE IF verify = "Ok"
              THEN [m EXCEPT !.signature = FALSE, !.verifier = "verify"]
              ELSE [m EXCEPT !.signature = FALSE]

\* A policy that takes a verifier's error for a valid signature.
verification_done_AcceptOnError(m, result) ==
    LET check_result == IF result # "OkFalse" THEN "Accept" ELSE "Pass"
        m1 == [m EXCEPT !.hash = TRUE, !.signature = TRUE,
                        !.binary = FALSE, !.credentials = -1,
                        !.log.answers = @ \cup {<<result, check_result>>},
                        !.log.verifiedTrue = @ \/ result = "OkTrue"]
    IN check_done(m1, check_result)

\* AppCheckerSignature::verification_done (signature::ClientVerify)
verification_done(m, result) ==
    LET check_result == IF result = "OkTrue" THEN "Accept" ELSE "Pass"
        m1 == [m EXCEPT !.hash = TRUE, !.signature = TRUE,
                        !.binary = FALSE, !.credentials = -1,
                        !.log.answers = @ \cup {<<result, check_result>>},
                        !.log.verifiedTrue = @ \/ result = "OkTrue"]
    IN check_done(m1, check_result)

\* The machine after ProcessCheckerMachine's construction and the policy
\* object after AppCheckerSignature::new.
CheckerNew ==
    /\ footer_index = 0
    /\ process_binary = NoBinary
    /\ scripted_pending = -1
    /\ sig_hash = TRUE
    /\ sig_signature = TRUE
    /\ sig_credentials = -1
    /\ sig_binary = FALSE
    /\ hasher = "idle"
    /\ verifier = "idle"
    /\ chkLog = EmptyChkLog

\* No callback of the policy, the hasher or the verifier is to come.
PolicyAtRest == scripted_pending = -1 /\ hasher = "idle" /\ verifier = "idle"

StartOn(pb) ==
    ChkCommit(start([ChkRecord EXCEPT
                        !.log = [EmptyChkLog EXCEPT !.starts = chkLog.starts + 1,
                                                    !.binary = pb,
                                                    !.withPolicy = policy # NoPolicy]],
                    pb))

\* The loader starts the machine on a binary (scripted policy).
CheckerStart ==
    /\ policy # NoPolicy
    /\ PolicyAtRest
    /\ chkLog.starts < MaxStarts
    /\ \E pb \in ScriptedBinaries : StartOn(pb)

\* The binaries the machine is started on before a policy is installed:
\* without a policy check looks at none of the footers, and one binary
\* without footers and one with a footer stand for all of them.
EarlyBinaries ==
    {pb \in ScriptedBinaries :
        /\ pb.end = "PastLastFooter"
        /\ Len(pb.footers) <= 1
        /\ \A k \in 1..Len(pb.footers) : pb.footers[k].answer = "Accept"}

\* The loader starts the machine before the board has installed a policy.
CheckerStartEarly ==
    /\ policy = NoPolicy
    /\ chkLog.starts < MaxStarts
    /\ \E pb \in EarlyBinaries : StartOn(pb)

\* The loader starts the new machine on its first binary (scripted policy).
CheckerFirstStart ==
    /\ PolicyAtRest
    /\ chkLog.starts = 0
    /\ \E pb \in ScriptedBinaries : StartOn(pb)

\* The board installs a scripted policy, at any moment.
CheckerSetPolicy ==
    \E r \in BOOLEAN :
        ChkCommit(set_policy(ChkRecord, [kind |-> "scripted", requires |-> r]))

\* The board installs the signature policy; there is one
\* AppCheckerSignature.
SigSetPolicy ==
    ChkCommit(set_policy(ChkRecord, [kind |-> "signature", requires |-> TRUE]))

\* The scripted policy calls check_done.
PolicyCheckDone ==
    /\ scripted_pending # -1
    /\ ChkCommit(scripted_answer(ChkRecord))

\* The loader starts the machine on a binary (signature policy).
SigStart ==
    /\ PolicyAtRest
    /\ chkLog.starts < MaxStarts
    /\ \E pb \in SigBinaries : StartOn(pb)

\* The hasher has taken the data in, or has failed to.
HasherAddDataDone ==
    /\ hasher = "add_data"
    /\ \E result \in {"Ok", "FAIL"}, run \in {"Ok", "FAIL"} :
          ChkCommit(add_data_done([ChkRecord EXCEPT !.hasher = "idle"],
                                  result, run))

\* The hasher has computed the digest, or has failed to.
HasherHashDone ==
    /\ hasher = "run"
    /\ \E result \in {"Ok", "FAIL"}, verify \in {"Ok", "FAIL"} :
          ChkCommit(hash_done([ChkRecord EXCEPT !.hasher = "idle"],
                              result, verify))

\* The verifier has compared the signature with the digest.
VerifierVerificationDone ==
    /\ verifier = "verify"
    /\ \E result \in {"OkTrue", "OkFalse", "FAIL"} :
          ChkCommit(verification_done([ChkRecord EXCEPT !.verifier = "idle"],
                                      result))

-----------------------------------------------------------------------------
(***************************************************************************)
(*                    PROCESS TABLE AND RUNNABILITY                        *)
(***************************************************************************)

\* The number of slots of the process table.
NumProcs == 2

\* What distinguishes the loaded binaries: the Application Identifier the
\* uniqueness policy compares, the ShortID (0 is LocallyUnique, n > 0 is
\* Fixed(n)) and the binary version.
AppIdentifiers == {1, 2}
ShortIDs == {0, 1}
BinaryVersions == {1, 2}

NoProcess == [app |-> 0, short |-> 0, version |-> 0, state |-> "None"]

Loaded ==
    {[app |-> a, short |-> s, version |-> v, state |-> "CredentialsUnchecked"] :
        a \in AppIdentifiers, s \in ShortIDs, v \in BinaryVersions}

\* Process::is_running
is_running(p) == p.state \in {"Running", "Yielded", "Stopped"}

\* AppUniqueness::different_identifier
different_identifier(process_a, process_b) == process_a.app # process_b.app

\* ShortID's !=: LocallyUnique differs from every ShortID, itself included.
short_app_id_ne(a, b) == ~(a.short # 0 /\ b.short # 0 /\ a.short = b.short)

\* is_runnable without the test of the process's own state.
is_runnable_NoStateCheck(process, procs) ==
    ~\E i \in 1..Len(procs) :
        /\ procs[i] # NoProcess
        /\ LET other == procs[i]
               state == other.state
               creds_approve == state # "CredentialsUnchecked"
                                    /\ state # "CredentialsFailed"
               different == different_identifier(process, other)
                                /\ short_app_id_ne(other, process)
               newer == other.version > process.version
               running == is_running(other)
               runnable == /\ state # "CredentialsUnchecked"
                           /\ state # "CredentialsFailed"
                           /\ state # "Terminated"
           IN creds_approve /\ ~different /\ ((newer /\ runnable) \/ running)

\* is_runnable without the exemption of a newer version that cannot run.
is_runnable_NewerAlwaysBlocks(process, procs) ==
    /\ process.state \in {"CredentialsApproved", "Terminated"}
    /\ ~\E i \in 1..Len(procs) :
        /\ procs[i] # NoProcess
        /\ LET other == procs[i]
               state == other.state
               creds_approve == state # "CredentialsUnchecked"
                                    /\ state # "CredentialsFailed"
               different == different_identifier(process, other)
                                /\ short_app_id_ne(other, process)
               newer == other.version > process.version
               running == is_running(other)
           IN creds_approve /\ ~different /\ (newer \/ running)

\* is_runnable that lets a process start beside a running one.
is_runnable_IgnoreRunning(process, procs) ==
    /\ process.state \in {"CredentialsApproved", "Terminated"}
    /\ ~\E i \in 1..Len(procs) :
        /\ procs[i] # NoProcess
        /\ LET other == procs[i]
               state == other.state
               creds_approve == state # "CredentialsUnchecked"
                                    /\ state # "CredentialsFailed"
               different == different_identifier(process, other)
                                /\ short_app_id_ne(other, process)
               newer == other.version > process.version
               runnable == /\ state # "CredentialsUnchecked"
                           /\ state # "CredentialsFailed"
                           /\ state # "Terminated"
           IN creds_approve /\ ~different /\ (newer /\ runnable)

\* Whether `other` blocks `process`: the closure of is_runnable's loop.
blocks(process, other) ==
    LET state == other.state
        creds_approve == state # "CredentialsUnchecked"
                             /\ state # "CredentialsFailed"
        different == different_identifier(process, other)
                         /\ short_app_id_ne(other, process)
        newer == other.version > process.version
        running == is_running(other)
        runnable == /\ state # "CredentialsUnchecked"
                    /\ state # "CredentialsFailed"
                    /\ state # "Terminated"
    IN creds_approve /\ ~different /\ ((newer /\ runnable) \/ running)

\* process_checker::is_runnable
is_runnable(process, procs) ==
    IF process.state # "CredentialsApproved" /\ process.state # "Terminated"
    THEN FALSE
    ELSE ~\E i \in 1..Len(procs) :
            procs[i] # NoProcess /\ blocks(process, procs[i])

\* The table before any binary is loaded, and after loading.
TableEmpty == processes = [i \in 1..NumProcs |-> NoProcess]
TableLoaded == processes \in [1..NumProcs -> Loaded \cup {NoProcess}]

SetState(i, s) ==
    /\ processes' = [processes EXCEPT ![i].state = s]
    /\ UNCHANGED <<splitVars, gpuVars, chkVars, ecdsaVars, fnVars, auxVars>>

\* The credentials of a binary have been checked.
ProcCredentialsChecked ==
    \E i \in 1..NumProcs, s \in {"CredentialsApproved", "CredentialsFailed"} :
        /\ processes[i].state = "CredentialsUnchecked"
        /\ SetState(i, s)

\* A process is started: only when is_runnable holds for it.
ProcStart ==
    \E i \in 1..NumProcs :
        /\ processes[i] # NoProcess
        /\ is_runnable(processes[i], processes)
        /\ SetState(i, "Running")

\* A running process yields, or is scheduled again.
ProcYield ==
    \E i \in 1..NumProcs :
        \/ processes[i].state = "Running" /\ SetState(i, "Yielded")
        \/ processes[i].state = "Yielded" /\ SetState(i, "Running")

\* A process is stopped, or resumed.
ProcStop ==
    \E i \in 1..NumProcs :
        \/ processes[i].state \in {"Running", "Yielded"} /\ SetState(i, "Stopped")
        \/ processes[i].state = "Stopped" /\ SetState(i, "Running")

\* A process faults.
ProcFault ==
    \E i \in 1..NumProcs :
        /\ processes[i].state = "Running"
        /\ SetState(i, "Faulted")

\* A process is terminated.
ProcTerminate ==
    \E i \in 1..NumProcs :
        /\ processes[i].state \in {"Running", "Yielded", "Stopped", "Faulted"}
        /\ SetState(i, "Terminated")

-----------------------------------------------------------------------------
(***************************************************************************)
(*                    ECDSA P-256 SIGNATURE VERIFIER                       *)
(***************************************************************************)

\* The number of calls the clients make in one run.
MaxCalls == 3

\* The pairs of a hash buffer and a signature buffer the verify client owns,
\* and the key indices the key-change client asks for.
EcdsaBuffers == {1, 2}
KeyIndices == {0, 1, 2}

EcdsaNoState == [kind |-> "None", index |-> 0]
Verifying == [kind |-> "Verifying", index |-> 0]
ChangingKey(index) == [kind |-> "ChangingKey", index |-> index]

NothingScheduled == [kind |-> "None", index |-> 0, buf |-> 0, verified |-> FALSE]

EmptyEcdsaLog ==
    [calls |-> 0, clientBufs |-> EcdsaBuffers, handler |-> "none",
     callbacks |-> <<>>, scheduled |-> NothingScheduled,
     reported |-> NothingScheduled,
     lastActivate |-> [index |-> 0, ret |-> "none", set |-> FALSE],
     keyDone |-> {}, accepted |-> 0, delivered |-> 0]

EcdsaRecord ==
    [verified |-> ecdsa_verified, verifying_key |-> ecdsa_verifying_key,
     hash_storage |-> ecdsa_hash_storage,
     signature_storage |-> ecdsa_signature_storage,
     deferred_call |-> ecdsa_deferred_call, state |-> ecdsa_state,
     log |-> ecdsaLog]

EcdsaCommit(e) ==
    /\ ecdsa_verified' = e.verified
    /\ ecdsa_verifying_key' = e.verifying_key
    /\ ecdsa_hash_storage' = e.hash_storage
    /\ ecdsa_signature_storage' = e.signature_storage
    /\ ecdsa_deferred_call' = e.deferred_call
    /\ ecdsa_state' = e.state
    /\ ecdsaLog' = e.log
    /\ UNCHANGED <<splitVars, gpuVars, chkVars, procVars, fnVars, auxVars>>

\* The handler that runs next starts with no callback made.
Enter(e, handler) ==
    [e EXCEPT !.log.handler = handler, !.log.callbacks = <<>>,
              !.log.calls = IF handler = "deferred" THEN @ ELSE @ + 1]

\* ClientVerify::verification_done as the verify client sees it: it gets
\* its buffers back.
verification_done_cb(e, res, h, s) ==
    [e EXCEPT !.log.callbacks =
                  Append(@, [cb |-> "verification_done", result |-> res,
                             hash |-> h, signature |-> s, index |-> 0]),
              !.log.clientBufs = @ \cup {h, s},
              !.log.delivered = @ + 1]

\* KeyChangeClient::activate_key_done as the key-change client sees it
activate_key_done_cb(e, index) ==
    [e EXCEPT !.log.callbacks =
                  Append(@, [cb |-> "activate_key_done", result |-> TRUE,
                             hash |-> 0, signature |-> 0, index |-> index]),
              !.log.keyDone = @ \cup {index}]

\* A verifier that calls its client back from inside verify.
ecdsa_verify_Inline(e0, hash, signature, sig_ok, prehash_ok) ==
    LET e == Enter(e0, "verify")
        taken == [e EXCEPT !.log.clientBufs = @ \ {hash, signature}]
    IN IF e.verifying_key /\ sig_ok
       THEN verification_done_cb(
                [taken EXCEPT !.verified = prehash_ok,
                              !.log.lastActivate.ret = "none",
                              !.log.accepted = @ + 1],
                prehash_ok, hash, signature)
       ELSE [e EXCEPT !.log.lastActivate.ret = "none"]

\* EcdsaP256SignatureVerifier::verify; sig_ok is whether the signature
\* bytes parse, prehash_ok whether they verify under the key.
ecdsa_verify(e0, hash, signature, sig_ok, prehash_ok) ==
    LET e == Enter(e0, "verify")
        taken == [e EXCEPT !.log.clientBufs = @ \ {hash, signature}]
    IN IF e.verifying_key
       THEN IF sig_ok
            THEN [taken EXCEPT !.verified = prehash_ok,
                               !.hash_storage = hash,
                               !.signature_storage = signature,
                               !.state = Verifying,
                               !.deferred_call = TRUE,
                               !.log.scheduled =
                                   [kind |-> "Verifying", index |-> 0,
                                    buf |-> hash, verified |-> prehash_ok],
                               !.log.lastActivate.ret = "none",
                               !.log.accepted = @ + 1]
            ELSE [e EXCEPT !.log.lastActivate.ret = "none"]
       ELSE [e EXCEPT !.log.lastActivate.ret = "none"]

\* EcdsaP256SignatureVerifier::get_key_count
get_key_count == 1

\* EcdsaP256SignatureVerifier::activate_key
ecdsa_activate_key(e0, index) ==
    LET e == Enter(e0, "activate_key")
    IN [e EXCEPT !.state = ChangingKey(index),
                 !.deferred_call = TRUE,
                 !.log.scheduled = [kind |-> "ChangingKey", index |-> index,
                                    buf |-> 0, verified |-> FALSE],
                 !.log.lastActivate =
                     [index |-> index, ret |-> "Ok", set |-> TRUE]]

\* EcdsaP256SignatureVerifier::handle_deferred_call
ecdsa_handle_deferred_call(e0) ==
    LET e == [Enter(e0, "deferred") EXCEPT
                  !.state = EcdsaNoState,
                  !.log.reported = e0.log.scheduled,
                  !.log.scheduled = NothingScheduled,
                  !.log.lastActivate.ret = "none"]
    IN CASE e0.state.kind = "Verifying" ->
                IF e.hash_storage # 0
                THEN LET e1 == [e EXCEPT !.hash_storage = 0]
                     IN IF e.signature_storage # 0
                        THEN verification_done_cb(
                                 [e1 EXCEPT !.signature_storage = 0],
                                 e.verified, e.hash_storage,
                                 e.signature_storage)
                        ELSE e1
                ELSE e
         [] e0.state.kind = "ChangingKey" ->
                activate_key_done_cb(e, e0.state.index)
         [] OTHER -> e

\* The verifier after EcdsaP256SignatureVerifier::new; the key bytes may
\* not be a point of the curve, and then no key is held.
EcdsaNew ==
    /\ ecdsa_verified = FALSE
    /\ ecdsa_verifying_key \in BOOLEAN
    /\ ecdsa_hash_storage = 0
    /\ ecdsa_signature_storage = 0
    /\ ecdsa_deferred_call = FALSE
    /\ ecdsa_state = EcdsaNoState
    /\ ecdsaLog = EmptyEcdsaLog

EcdsaUnused == EcdsaNew /\ ecdsa_verifying_key

\* The verify client calls verify with a pair of buffers it holds.
EcdsaVerify ==
    /\ ecdsaLog.calls < MaxCalls
    /\ \E b \in ecdsaLog.clientBufs, sig_ok \in BOOLEAN, prehash_ok \in BOOLEAN :
          EcdsaCommit(ecdsa_verify(EcdsaRecord, b, b, sig_ok, prehash_ok))

\* The key-change client calls activate_key.
EcdsaActivateKey ==
    /\ ecdsaLog.calls < MaxCalls
    /\ \E index \in KeyIndices :
          EcdsaCommit(ecdsa_activate_key(EcdsaRecord, index))

\* The kernel dispatches the verifier's deferred call.
EcdsaDeferredCall ==
    /\ ecdsa_deferred_call
    /\ EcdsaCommit(ecdsa_handle_deferred_call(
                       [EcdsaRecord EXCEPT !.deferred_call = FALSE]))

-----------------------------------------------------------------------------
(***************************************************************************)
(*                 PURE FUNCTIONS AND THEIR APPLICATION                    *)
(***************************************************************************)

\* A pure function is applied to arguments drawn at the start of a run:
\* fn_call holds the arguments, fn_result what the function returned.
NoCall == [fn |-> "none"]
NoResult == [kind |-> "none"]
NoCallMade == fn_call = NoCall /\ fn_result = NoResult

FnUnchanged ==
    UNCHANGED <<splitVars, gpuVars, chkVars, procVars, ecdsaVars, auxVars>>

\* The longest credential payload drawn, and the byte values it is made of.
MaxLen == 4
ByteValues == {0, 1, 8, 128, 255}

\* The bitwise or of two bytes
RECURSIVE BitOr(_, _)
BitOr(a, b) ==
    IF a = 0 THEN b
    ELSE IF b = 0 THEN a
    ELSE 2 * BitOr(a \div 2, b \div 2)
         + (IF a % 2 = 1 \/ b % 2 = 1 THEN 1 ELSE 0)

\* A u32 is held as its four bytes, the most significant first.
U32(b3, b2, b1, b0) == <<b3, b2, b1, b0>>
U32Zero == U32(0, 0, 0, 0)
U32Or(a, b) == [i \in 1..4 |-> BitOr(a[i], b[i])]

\* (byte as u32) << 24, << 16, << 8, and the byte widened
Shl24(b) == U32(b, 0, 0, 0)
Shl16(b) == U32(0, b, 0, 0)
Shl8(b) == U32(0, 0, b, 0)
AsU32(b) == U32(0, 0, 0, b)

\* ShortID
LocallyUnique == [kind |-> "LocallyUnique", value |-> U32Zero]
Fixed(v) == [kind |-> "Fixed", value |-> v]

\* AppCheckerSignature::to_short_id; its constant 0x8000000 is 0x08000000.
to_short_id(data) ==
    IF Len(data) < 4 THEN LocallyUnique
    ELSE LET id == U32Or(U32Or(U32Or(U32Or(U32(8, 0, 0, 0), Shl24(data[1])),
                                     Shl16(data[2])),
                               Shl8(data[3])),
                         AsU32(data[4]))
         IN IF id # U32Zero THEN Fixed(id) ELSE LocallyUnique

\* The credential payloads to_short_id is applied to
ShortIdInit ==
    /\ fn_call \in {[fn |-> "to_short_id", data |-> d] : d \in SeqsUpTo(ByteValues, MaxLen)}
    /\ fn_result = NoResult

ApplyToShortId ==
    /\ fn_call.fn = "to_short_id"
    /\ fn_result = NoResult
    /\ fn_result' = to_short_id(fn_call.data)
    /\ UNCHANGED fn_call
    /\ FnUnchanged

-----------------------------------------------------------------------------
(***************************************************************************)
(*                        COMMAND RESTRICTIONS                             *)
(***************************************************************************)

\* core::ops::Range<usize>
Range(lo, hi) == [start |-> lo, end |-> hi]
RangeContains(r, x) == r.start <= x /\ x < r.end
RangeLen(r) == IF r.start < r.end THEN r.end - r.start ELSE 0

\* AppPermissions; app_id is a ShortID (0 is LocallyUnique, n > 0 Fixed(n)).
AppPermissions(app_id, permitted_arg1, permitted_arg2) ==
    [app_id |-> app_id, permitted_arg1 |-> permitted_arg1,
     permitted_arg2 |-> permitted_arg2]

\* The permission tables the capsule is configured with: one app; two apps
\* and a second, shadowed entry for the first.
PermissionTables ==
    {<<AppPermissions(1, Range(10, 20), Range(0, 5))>>,
     <<AppPermissions(1, Range(10, 20), Range(0, 5)),
       AppPermissions(2, Range(60, 63), Range(2, 4)),
       AppPermissions(1, Range(0, 63), Range(0, 63))>>}

\* The command number that returns the count of the underlying resource.
CountCommands == {1}
CommandNums == {0, 1, 2, 3}

\* The ShortIDs of the calling processes: LocallyUnique, two with
\* permissions, one without.
CallerShortIDs == {0, 1, 2, 3}

\* ShortID's ==: a LocallyUnique ShortID equals no ShortID.
short_app_id_eq(a, b) == a # 0 /\ b # 0 /\ a = b

\* CommandRestrictions::get_app_permitted: the index of the first entry for
\* the process, 0 for None.
get_app_permitted(cr, processid) ==
    LET matching == {i \in 1..Len(cr.permissions) :
                         short_app_id_eq(processid, cr.permissions[i].app_id)}
    IN IF matching = {} THEN 0
       ELSE CHOOSE i \in matching : \A j \in matching : i <= j

\* What a call of command leaves behind: how it ended, what it returned,
\* and the calls of the underlying driver's command it made.
Returned(ret, value, driver) ==
    [kind |-> "return", ret |-> ret, value |-> value, driver |-> driver]
Panicked == [kind |-> "panic", ret |-> "none", value |-> 0, driver |-> <<>>]
DriverCall(command_num, arg1, arg2) ==
    [command_num |-> command_num, arg1 |-> arg1, arg2 |-> arg2]

\* command that forwards without the test of the translated arguments.
command_NoRangeCheck(cr, command_num, arg1, arg2, processid) ==
    IF command_num = 0
    THEN Returned("driver", 0, <<DriverCall(0, arg1, arg2)>>)
    ELSE LET p == get_app_permitted(cr, processid)
         IN IF p = 0 THEN Returned("NOSUPPORT", 0, <<>>)
            ELSE LET perm == cr.permissions[p]
                 IN IF command_num = cr.command_num_num
                    THEN Returned("success_u32", RangeLen(perm.permitted_arg1), <<>>)
                    ELSE Returned("driver", 0,
                             <<DriverCall(0, UsizeAdd(perm.permitted_arg1.start, arg1),
                                          UsizeAdd(perm.permitted_arg2.start, arg2))>>)

\* CommandRestrictions::command; "driver" stands for whatever the underlying
\* driver's command returned.
command(cr, command_num, arg1, arg2, processid) ==
    IF command_num = 0
    THEN Returned("driver", 0, <<DriverCall(0, arg1, arg2)>>)
    ELSE LET p == get_app_permitted(cr, processid)
         IN IF p = 0 THEN Returned("NOSUPPORT", 0, <<>>)
            ELSE LET perm == cr.permissions[p]
                     new_arg1 == UsizeAdd(perm.permitted_arg1.start, arg1)
                     new_arg2 == UsizeAdd(perm.permitted_arg2.start, arg2)
                 IN IF command_num = cr.command_num_num
                    THEN Returned("success_u32", RangeLen(perm.permitted_arg1), <<>>)
                    ELSE IF cr.overflow_checks
                            /\ (UsizeOverflows(perm.permitted_arg1.start, arg1)
                                \/ UsizeOverflows(perm.permitted_arg2.start, arg2))
                    THEN Panicked
                    ELSE IF RangeContains(perm.permitted_arg1, new_arg1)
                            /\ RangeContains(perm.permitted_arg2, new_arg2)
                    THEN Returned("driver", 0, <<DriverCall(0, new_arg1, new_arg2)>>)
                    ELSE Returned("NOSUPPORT", 0, <<>>)

\* CommandRestrictions::new, in a build with or without overflow checks; no
\* command has been called.
RestrictNew ==
    /\ fn_call \in {[fn |-> "new", permissions |-> t, command_num_num |-> n,
                     overflow_checks |-> o, command_num |-> 0, arg1 |-> 0,
                     arg2 |-> 0, processid |-> 0] :
                        t \in PermissionTables, n \in CountCommands, o \in BOOLEAN}
    /\ fn_result = NoResult

\* A process calls command; the capsule keeps no state between calls, so a
\* run holds one call.
RestrictCommand ==
    /\ fn_call.fn = "new"
    /\ \E command_num \in CommandNums, arg1 \in Usize, arg2 \in Usize,
          processid \in CallerShortIDs :
           /\ fn_call' = [fn_call EXCEPT !.fn = "command",
                                         !.command_num = command_num,
                                         !.arg1 = arg1, !.arg2 = arg2,
                                         !.processid = processid]
           /\ fn_result' = command(fn_call, command_num, arg1, arg2, processid)
           /\ FnUnchanged

-----------------------------------------------------------------------------
(***************************************************************************)
(*                 THE ABSOLUTE FRAME OF A SCREEN SECTION                  *)
(***************************************************************************)

\* The allotments and the relative frames calculate_absolute_frame is
\* applied to: offsets and sizes inside, at the edge of and beyond the
\* allotment, up to the largest usize.
AbsSplitFrames == {Rect(10, 10, 50, 50), Rect(0, 32, 32, 31)}
AbsOffsets == {0, 5, 40, 54, UsizeMax}
AbsSizes == {0, 30, UsizeMax}

FrameReturned(frame) == [kind |-> "return", frame |-> frame]
FramePanicked == [kind |-> "panic", frame |-> Rect(0, 0, 0, 0)]

AbsFrameInit ==
    /\ fn_call \in {[fn |-> "calculate_absolute_frame", split_frame |-> sf,
                     active_frame |-> Rect(x, y, w, h), overflow_checks |-> o] :
                        sf \in AbsSplitFrames, x \in AbsOffsets, y \in AbsOffsets,
                        w \in AbsSizes, h \in AbsSizes, o \in BOOLEAN}
    /\ fn_result = NoResult

\* calculate_absolute_frame is applied; with overflow checks an overflowing
\* sum aborts it.
ApplyAbsFrame ==
    /\ fn_call.fn = "calculate_absolute_frame"
    /\ fn_result = NoResult
    /\ fn_result' =
           IF fn_call.overflow_checks
              /\ calculate_absolute_frame_overflows(fn_call.split_frame,
                                                    fn_call.active_frame)
           THEN FramePanicked
           ELSE FrameReturned(calculate_absolute_frame(fn_call.split_frame,
                                                       fn_call.active_frame))
    /\ UNCHANGED fn_call
    /\ FnUnchanged

-----------------------------------------------------------------------------
(***************************************************************************)
(*          MONOCHROME 8-BIT-PAGE ADAPTER OVER AN ARGB8888 SCREEN          *)
(***************************************************************************)

\* The resolution of the screen under the adapter.
MonoWidth == 2
MonoHeight == 16

\* The write frames the client asks for, and the lengths in bytes of the
\* buffers it writes; a byte holds a column of eight pixels.
MonoFrames ==
    {Rect(x, y, w, h) : x \in 0..1, y \in {0, 4, 8}, w \in {0, 1, MonoWidth},
                        h \in {0, 8, 16}}
MonoBufferLens == 0..(MonoWidth + 1)

Dims(x, y) == [x |-> x, y |-> y]

EmptyMonoLog ==
    [call |-> [op |-> "none", len |-> 0, cont |-> FALSE, budget |-> 0],
     ret |-> "none", written |-> {}, frame |-> Rect(0, 0, 0, 0),
     callbacks |-> <<>>]

\* ScreenARGB8888ToMono8BitPage::new, with its client set; the client holds
\* its buffer, and the screen below has no flush under way.
MonoFresh ==
    [write_frame |-> [rect |-> Rect(0, 0, 0, 0), offset |-> Dims(0, 0),
                      remaining |-> 0],
     client_buffer |-> -1, deferred_call |-> FALSE,
     flushing |-> FALSE, clientHolds |-> TRUE, panic |-> FALSE,
     log |-> EmptyMonoLog]

MonoNew == mono = MonoFresh

MonoPanic(a) == [a EXCEPT !.panic = TRUE]

MonoCommit(a) ==
    /\ mono' = a
    /\ UNCHANGED <<splitVars, gpuVars, chkVars, procVars, ecdsaVars, fnVars,
                   onled, boundary, vinput>>

\* ScreenARGB8888ToMono8BitPage::set_write_frame
mono_set_write_frame(a0, x, y, width, height) ==
    LET a == [a0 EXCEPT !.log.call = [op |-> "set_write_frame", len |-> 0,
                                      cont |-> FALSE, budget |-> 0],
                        !.log.callbacks = <<>>]
    IN IF x + width > MonoWidth \/ y + height > MonoHeight
       THEN [a EXCEPT !.log.ret = "SIZE"]
       ELSE IF y % 8 # 0 \/ height % 8 # 0
       THEN [a EXCEPT !.log.ret = "INVAL"]
       ELSE [a EXCEPT !.write_frame = [rect |-> Rect(x, y, width, height),
                                       offset |-> Dims(x, y),
                                       remaining |-> width * height],
                      !.deferred_call = TRUE,
                      !.log.ret = "Ok"]

\* The loop without the step to the next eight rows at the end of a row.
RECURSIVE MonoWriteBytes_NoLineFeed(_, _, _, _, _)
MonoWriteBytes_NoLineFeed(wf, offset, pixels_remaining, written, n) ==
    IF n = 0
    THEN [panic |-> FALSE, offset |-> offset,
          remaining |-> pixels_remaining, written |-> written]
    ELSE LET pixels == {<<offset.x, offset.y + y_set_off>> : y_set_off \in 0..7}
             in_fb == \A px \in pixels :
                          (px[2] * MonoWidth + px[1]) * 4 + 4
                              <= MonoWidth * MonoHeight * 4
         IN IF ~(pixels_remaining > 0)
               \/ ~(offset.y < wf.y + wf.height)
               \/ ~in_fb
            THEN [panic |-> TRUE, offset |-> offset,
                  remaining |-> pixels_remaining, written |-> written]
            ELSE MonoWriteBytes_NoLineFeed(wf, Dims(offset.x + 1, offset.y),
                                           pixels_remaining - 8,
                                           written \cup pixels, n - 1)

\* The loop of write's closure over the n bytes still to write: the state
\* of the loop is the offset, the pixels remaining and the pixels written;
\* a failed assertion or an index outside the framebuffer aborts.
RECURSIVE MonoWriteBytes(_, _, _, _, _)
MonoWriteBytes(wf, offset, pixels_remaining, written, n) ==
    IF n = 0
    THEN [panic |-> FALSE, offset |-> offset,
          remaining |-> pixels_remaining, written |-> written]
    ELSE LET off == IF offset.x >= wf.x + wf.width
                    THEN Dims(wf.x, offset.y + 8)
                    ELSE offset
             pixels == {<<off.x, off.y + y_set_off>> : y_set_off \in 0..7}
             in_fb == \A px \in pixels :
                          (px[2] * MonoWidth + px[1]) * 4 + 4
                              <= MonoWidth * MonoHeight * 4
         IN IF ~(pixels_remaining > 0)
               \/ ~(off.y < wf.y + wf.height)
               \/ ~in_fb
            THEN [panic |-> TRUE, offset |-> off,
                  remaining |-> pixels_remaining, written |-> written]
            ELSE MonoWriteBytes(wf, Dims(off.x + 1, off.y),
                                pixels_remaining - 8, written \cup pixels,
                                n - 1)

\* ScreenARGB8888ToMono8BitPage::write; the buffer is its length in bytes.
\* InMemoryFrameBufferScreen::write_to_frame_buffer runs the closure on the
\* framebuffer and returns the closure's error, or starts a flush of the
\* screen that ends with command_complete.
mono_write(a0, len, continue_write) ==
    LET wf == a0.write_frame.rect
        offset == IF ~continue_write THEN Dims(wf.x, wf.y)
                  ELSE a0.write_frame.offset
        pixels_remaining == IF ~continue_write THEN wf.width * wf.height
                            ELSE a0.write_frame.remaining
        a == [a0 EXCEPT !.log.call = [op |-> "write", len |-> len,
                                      cont |-> continue_write,
                                      budget |-> pixels_remaining],
                        !.log.written = {}, !.log.frame = wf,
                        !.log.callbacks = <<>>]
    IN IF len * 8 > pixels_remaining
       THEN \* the closure returns Err(SIZE); write_res.unwrap() aborts
            MonoPanic([a EXCEPT !.log.ret = "none"])
       ELSE LET loop == MonoWriteBytes(wf, offset, pixels_remaining, {}, len)
            IN IF loop.panic
               THEN MonoPanic([a EXCEPT !.log.ret = "none",
                                        !.log.written = loop.written])
               ELSE [a EXCEPT !.write_frame = [rect |-> wf,
                                               offset |-> loop.offset,
                                               remaining |-> loop.remaining],
                              !.flushing = TRUE,
                              !.client_buffer = len,
                              !.clientHolds = FALSE,
                              !.log.written = loop.written,
                              !.log.ret = "Ok"]

\* ScreenARGB8888ToMono8BitPage::command_complete (ScreenClient): the flush
\* of the screen below is done.
mono_command_complete(a0) ==
    LET a == [a0 EXCEPT !.flushing = FALSE, !.log.callbacks = <<>>]
    IN IF a.client_buffer = -1
       THEN MonoPanic(a)
       ELSE [a EXCEPT !.client_buffer = -1, !.clientHolds = TRUE,
                      !.log.callbacks = <<"write_complete">>]

\* ScreenARGB8888ToMono8BitPage::handle_deferred_call
mono_handle_deferred_call(a) ==
    [a EXCEPT !.log.callbacks = <<"command_complete">>]

\* The client calls set_write_frame.
MonoSetWriteFrame ==
    /\ ~mono.panic
    /\ \E f \in MonoFrames :
          MonoCommit(mono_set_write_frame(mono, f.x, f.y, f.width, f.height))

\* The client, holding its buffer, calls write.
MonoWrite ==
    /\ ~mono.panic
    /\ mono.clientHolds
    /\ \E len \in MonoBufferLens, c \in BOOLEAN :
          MonoCommit(mono_write(mono, len, c))

\* The screen below completes the flush.
MonoCommandComplete ==
    /\ ~mono.panic
    /\ mono.flushing
    /\ MonoCommit(mono_command_complete(mono))

\* The kernel dispatches the adapter's deferred call.
MonoDeferredCall ==
    /\ ~mono.panic
    /\ mono.deferred_call
    /\ MonoCommit(mono_handle_deferred_call(
                      [mono EXCEPT !.deferred_call = FALSE]))

-----------------------------------------------------------------------------
(***************************************************************************)
(*                      VIRTUAL LEDS ON A SCREEN                           *)
(***************************************************************************)

\* NUM_LEDS of the ScreenOnLed under study.
NUM_LEDS == 2
LedIndices == 0..(NUM_LEDS - 1)

\* An image in the LED buffer: whether the label is drawn and, for every
\* LED, whether its border and its inner square are drawn.
Glyph(border, fill) == [border |-> border, fill |-> fill]
BlankImage == [text |-> FALSE, leds |-> [i \in LedIndices |-> Glyph(FALSE, FALSE)]]
NoImage == [text |-> FALSE, leds |-> <<>>]

EmptyLedLog ==
    [call |-> [op |-> "none", index |-> 0, initialized |-> FALSE,
               held |-> FALSE],
     writes |-> 0, rendered |-> {}, ret |-> FALSE]

\* ScreenOnLed::new; the screen below holds no buffer and shows nothing.
LedFresh ==
    [leds |-> [i \in LedIndices |-> FALSE],
     buffer |-> BlankImage,
     initialized |-> FALSE,
     inFlight |-> NoImage,
     shown |-> NoImage,
     log |-> EmptyLedLog]

LedNew == onled = LedFresh

LedCommit(l) ==
    /\ onled' = l
    /\ UNCHANGED <<splitVars, gpuVars, chkVars, procVars, ecdsaVars, fnVars,
                   mono, boundary, vinput>>

LedRecord(l, op, index) ==
    [l EXCEPT !.log = [call |-> [op |-> op, index |-> index,
                                 initialized |-> l.initialized,
                                 held |-> l.buffer # NoImage],
                       writes |-> 0, rendered |-> {}, ret |-> FALSE]]

\* ScreenOnLed::render_led: the outer square on, the inside cleared.
render_led(image, led_index) ==
    [image EXCEPT !.leds[led_index] = Glyph(TRUE, FALSE)]

\* ScreenOnLed::render: the label, then every LED's border.
render(image) ==
    [text |-> TRUE, leds |-> [i \in LedIndices |-> Glyph(TRUE, FALSE)]]

\* ScreenOnLed::render_led_state: the inside cleared, then filled if on.
render_led_state(image, led_index, on) ==
    [image EXCEPT !.leds[led_index].fill = on]

\* Screen::write of the screen below, called with the image and
\* continue_write false: the screen takes the buffer and, if it accepts,
\* returns it later through write_complete; the caller drops the result.
led_screen_write(l, image, accepted) ==
    [l EXCEPT !.inFlight = IF accepted THEN image ELSE NoImage,
              !.log.writes = @ + 1]

\* ScreenOnLed::initialize_leds
initialize_leds(l, accepted) ==
    IF l.buffer = NoImage THEN l
    ELSE led_screen_write([l EXCEPT !.buffer = NoImage,
                                    !.log.rendered = LedIndices],
                          render(l.buffer), accepted)

\* ScreenOnLed::led_control
led_control(l, led_index, on, accepted) ==
    IF ~l.initialized THEN l
    ELSE IF l.buffer = NoImage THEN l
    ELSE led_screen_write([l EXCEPT !.buffer = NoImage,
                                    !.log.rendered = {led_index}],
                          render_led_state(l.buffer, led_index, on),
                          accepted)

\* LedIndexed::on for ScreenOnLed
led_on(l0, index, accepted) ==
    LET l == LedRecord(l0, "on", index)
    IN led_control([l EXCEPT !.leds[index] = TRUE], index, TRUE, accepted)

\* LedIndexed::off for ScreenOnLed
led_off(l0, index, accepted) ==
    LET l == LedRecord(l0, "off", index)
    IN led_control([l EXCEPT !.leds[index] = FALSE], index, FALSE, accepted)

\* LedIndexed::toggle for ScreenOnLed
led_toggle(l0, index, accepted) ==
    LET l == LedRecord(l0, "toggle", index)
        updated == ~l.leds[index]
    IN led_control([l EXCEPT !.leds[index] = updated], index, updated,
                   accepted)

\* LedIndexed::read for ScreenOnLed
led_read(l0, index) ==
    LET l == LedRecord(l0, "read", index)
    IN [l EXCEPT !.log.ret = l.leds[index]]

\* ScreenClient::write_complete for ScreenOnLed: the screen shows the image
\* and returns the buffer.
led_write_complete(l0) ==
    LET l == LedRecord(l0, "write_complete", 0)
    IN [l EXCEPT !.buffer = l.inFlight, !.shown = l.inFlight,
                 !.inFlight = NoImage]

\* ScreenClient::screen_is_ready for ScreenOnLed
led_screen_is_ready(l0, accepted) ==
    LET l == LedRecord(l0, "screen_is_ready", 0)
    IN IF ~l.initialized
       THEN initialize_leds([l EXCEPT !.initialized = TRUE], accepted)
       ELSE l

LedOn ==
    \E i \in LedIndices, ok \in BOOLEAN : LedCommit(led_on(onled, i, ok))

LedOff ==
    \E i \in LedIndices, ok \in BOOLEAN : LedCommit(led_off(onled, i, ok))

LedToggle ==
    \E i \in LedIndices, ok \in BOOLEAN : LedCommit(led_toggle(onled, i, ok))

LedRead ==
    \E i \in LedIndices : LedCommit(led_read(onled, i))

\* The board calls initialize_leds itself.
LedInitializeLeds ==
    \E ok \in BOOLEAN :
        LedCommit(initialize_leds(LedRecord(onled, "initialize_leds", 0), ok))

\* The screen below reports that it is ready.
LedScreenIsReady ==
    \E ok \in BOOLEAN : LedCommit(led_screen_is_ready(onled, ok))

\* The screen below completes the write it holds.
LedWriteComplete ==
    /\ onled.inFlight # NoImage
    /\ LedCommit(led_write_complete(onled))

LedUnused == LedNew
-----------------------------------------------------------------------------
(***************************************************************************)
(*                  X86 USERSPACE / KERNEL BOUNDARY                        *)
(***************************************************************************)

\* A u32 is a pair of 16-bit halves, the high one first.
HalfWord == 65536
Word(hi, lo) == <<hi, lo>>
WordOf(n) == Word(0, n)
WordLess(a, b) == a[1] < b[1] \/ (a[1] = b[1] /\ a[2] < b[2])
WordLeq(a, b) == a = b \/ WordLess(a, b)

\* a - b modulo 2^32
WordSub(a, b) ==
    LET borrow == IF a[2] < b[2] THEN 1 ELSE 0
    IN Word((a[1] - b[1] - borrow + HalfWord) % HalfWord,
            (a[2] - b[2] + HalfWord) % HalfWord)

\* Boundary::MIN_APP_BRK: five machine words of four bytes.
BytesPerWord == 4
MIN_APP_BRK == 5 * BytesPerWord

\* crate::interrupts::IDT_RESERVED_EXCEPTIONS and SYSCALL_VECTOR
IDT_RESERVED_EXCEPTIONS == 32
SYSCALL_VECTOR == 64

\* The addresses the kernel passes to initialize_process.
Addresses ==
    {Word(0, 0), Word(0, 16), Word(0, 19), Word(0, 20), Word(0, 36),
     Word(1, 0), Word(1, 15), Word(65535, 65535)}

\* The vectors switch_to_user returns, and the error codes it stores.
Vectors == {0, 6, 13, 14, 31, 32, 33, SYSCALL_VECTOR}
ErrCodes == {0, 4}

EmptyBoundaryLog ==
    [call |-> [op |-> "none", start |-> WordOf(0), app_brk |-> WordOf(0)],
     ret |-> "none", entered |-> FALSE, exceptionFault |-> FALSE]

\* UserContext::default: every register zero, no exception recorded.
DefaultContext ==
    [esp |-> WordOf(0), eip |-> WordOf(0), exception |-> 0, err_code |-> 0,
     panic |-> FALSE, log |-> EmptyBoundaryLog]

BoundaryUnused == boundary = DefaultContext

BoundaryCommit(b) ==
    /\ boundary' = b
    /\ UNCHANGED <<splitVars, gpuVars, chkVars, procVars, ecdsaVars, fnVars,
                   mono, onled, vinput>>

BoundaryRecord(b, op, memory_start, app_brk) ==
    [b EXCEPT !.log.call = [op |-> op, start |-> memory_start,
                            app_brk |-> app_brk],
              !.log.ret = "none", !.log.entered = FALSE]

\* Boundary::initialize_process; a subtraction that overflows aborts when
\* overflow is checked and wraps otherwise.
initialize_process(b0, accessible_memory_start, app_brk, overflow_checks) ==
    LET b == BoundaryRecord(b0, "initialize_process",
                            accessible_memory_start, app_brk)
    IN IF WordLess(app_brk, accessible_memory_start) /\ overflow_checks
       THEN [b EXCEPT !.panic = TRUE]
       ELSE IF WordLess(WordSub(app_brk, accessible_memory_start),
                        WordOf(MIN_APP_BRK))
       THEN [b EXCEPT !.log.ret = "Err"]
       ELSE IF WordLess(app_brk, WordOf(16)) /\ overflow_checks
       THEN [b EXCEPT !.panic = TRUE]
       ELSE [b EXCEPT !.esp = WordSub(app_brk, WordOf(16)),
                      !.eip = WordOf(0),
                      !.log.ret = "Ok"]

\* Boundary::set_process_function: the next switch to the process enters
\* the upcall at pc.  Of the registers it writes the context keeps eip.
set_process_function(b0, pc) ==
    LET b == BoundaryRecord(b0, "set_process_function", WordOf(0), WordOf(0))
    IN [b EXCEPT !.eip = pc, !.log.ret = "Ok"]

\* Boundary::switch_to_process. switch_to_user runs the process until the
\* interrupt int_num with error code err_code; syscall_decodes says whether
\* the registers of a system call name a system call.
switch_to_process(b0, int_num, err_code, syscall_decodes) ==
    LET b == BoundaryRecord(b0, "switch_to_process", WordOf(0), WordOf(0))
    IN IF b.exception # 0 \/ b.err_code # 0
       THEN [b EXCEPT !.log.ret = "Fault"]
       ELSE LET u == [b EXCEPT !.log.entered = TRUE]
            IN IF int_num < IDT_RESERVED_EXCEPTIONS
               THEN [u EXCEPT !.exception = int_num,
                              !.err_code = err_code,
                              !.log.ret = "Fault",
                              !.log.exceptionFault = TRUE]
               ELSE IF int_num = SYSCALL_VECTOR
               THEN [u EXCEPT !.log.ret = IF syscall_decodes
                                          THEN "SyscallFired" ELSE "Fault"]
               ELSE [u EXCEPT !.log.ret = "Interrupted"]

\* The kernel initializes the process.
BoundaryInitializeProcess ==
    /\ ~boundary.panic
    /\ \E s \in Addresses, a \in Addresses, c \in BOOLEAN :
          BoundaryCommit(initialize_process(boundary, s, a, c))

\* The entry points of the upcalls the kernel schedules.
UpcallEntries == {Word(0, 64), Word(1, 64)}

\* The kernel schedules an upcall of the process.
BoundarySetProcessFunction ==
    /\ ~boundary.panic
    /\ \E pc \in UpcallEntries :
          BoundaryCommit(set_process_function(boundary, pc))

\* The kernel switches to the process.
BoundarySwitchToProcess ==
    /\ ~boundary.panic
    /\ \E v \in Vectors, e \in ErrCodes, d \in BOOLEAN :
          BoundaryCommit(switch_to_process(boundary, v, e, d))

-----------------------------------------------------------------------------
(***************************************************************************)
(*                        VIRTIO INPUT DEVICE DRIVER                       *)
(***************************************************************************)

\* The receive buffers given to VirtIOInput::new: three for events and one
\* for the status; NoBuf is an empty OptionalCell.
NoBuf == 0
EventBuffers == {1, 2, 3}
StatusBuffer == 4

\* The descriptors of the event queue (SplitVirtqueue<_, _, 3>).
EventQueueSize == 3

\* The first eight bytes the device writes into an event buffer.
InputEvents ==
    {<<t0, t1, c0, 0, v0, 0, 0, v3>> :
        t0 \in {0, 1}, t1 \in {0, 1}, c0 \in {0, 30}, v0 \in {0, 1}, v3 \in {0, 1}}

\* u16::from_le_bytes and u32::from_le_bytes
U16FromLe(b0, b1) == b0 + 256 * b1
U32FromLe(b0, b1, b2, b3) == b0 + 256 * b1 + 65536 * b2 + 16777216 * b3

NoEvent == [type |-> -1, code |-> -1, value |-> -1]

\* VirtIOInput::new
InputFresh ==
    [event_buffer1 |-> 1, event_buffer2 |-> 2, event_buffer3 |-> 3,
     status_buffer |-> StatusBuffer,
     eventq |-> <<>>, statusq |-> <<>>,
     panic |-> FALSE,
     log |-> [op |-> "none", event |-> NoEvent, dropped |-> {}]]

InputUnused == vinput = InputFresh

InputCommit(v) ==
    /\ vinput' = v
    /\ UNCHANGED <<splitVars, gpuVars, chkVars, procVars, ecdsaVars, fnVars,
                   mono, onled, boundary>>

\* eventq.provide_buffer_chain(..).unwrap() with a chain of one buffer: the
\* queue takes the buffer behind the ones it has, while it has a free
\* descriptor.
provide_event_buffer(v, buf) ==
    IF v.panic THEN v
    ELSE IF Len(v.eventq) >= EventQueueSize
    THEN [v EXCEPT !.panic = TRUE]
    ELSE [v EXCEPT !.eventq = Append(@, buf)]

\* VirtIOInput::reinsert_virtqueue_receive_buffer: the event buffers that
\* are held are given to the event queue; the status buffer is left alone.
reinsert_virtqueue_receive_buffer(v0) ==
    LET v1 == IF v0.event_buffer1 # NoBuf
              THEN provide_event_buffer([v0 EXCEPT !.event_buffer1 = NoBuf],
                                        v0.event_buffer1)
              ELSE v0
        v2 == IF v1.panic THEN v1
              ELSE IF v1.event_buffer2 # NoBuf
              THEN provide_event_buffer([v1 EXCEPT !.event_buffer2 = NoBuf],
                                        v1.event_buffer2)
              ELSE v1
        v3 == IF v2.panic THEN v2
              ELSE IF v2.event_buffer3 # NoBuf
              THEN provide_event_buffer([v2 EXCEPT !.event_buffer3 = NoBuf],
                                        v2.event_buffer3)
              ELSE v2
    IN v3

\* OptionalCell::replace: what the cell held before is dropped.
Dropped(v, held) == IF held = NoBuf THEN v.log.dropped ELSE v.log.dropped \cup {held}

\* VirtIOInput::buffer_chain_ready (SplitVirtqueueClient): the queue hands
\* back the buffer the device has used, with the bytes the device wrote.
buffer_chain_ready(v0, queue, buf, bytes) ==
    LET v == [v0 EXCEPT !.log.op = queue]
    IN IF queue = "eventq"
       THEN LET event_type == U16FromLe(bytes[1], bytes[2])
                event_code == U16FromLe(bytes[3], bytes[4])
                event_value == U32FromLe(bytes[5], bytes[6], bytes[7], bytes[8])
            IN reinsert_virtqueue_receive_buffer(
                   [v EXCEPT !.event_buffer1 = buf,
                             !.log.dropped = Dropped(v, v.event_buffer1),
                             !.log.event = [type |-> event_type,
                                            code |-> event_code,
                                            value |-> event_value]])
       ELSE reinsert_virtqueue_receive_buffer(
                [v EXCEPT !.status_buffer = buf,
                          !.log.dropped = Dropped(v, v.status_buffer)])

\* The board gives the receive buffers to the device for the first time.
InputReinsert ==
    /\ ~vinput.panic
    /\ InputCommit(reinsert_virtqueue_receive_buffer(
                       [vinput EXCEPT !.log.op = "reinsert"]))

\* A queue without its k-th buffer.
WithoutNth(q, k) == [j \in 1..(Len(q) - 1) |-> IF j < k THEN q[j] ELSE q[j + 1]]

\* The device has used one of the buffers it holds in one of its two
\* queues, in any order.
InputBufferChainReady ==
    /\ ~vinput.panic
    /\ \E queue \in {"eventq", "statusq"} :
          \E k \in 1..Len(vinput[queue]), bytes \in InputEvents :
             InputCommit(buffer_chain_ready(
                 [vinput EXCEPT ![queue] = WithoutNth(@, k)],
                 queue, vinput[queue][k], bytes))

AuxUnused == MonoNew /\ LedUnused /\ BoundaryUnused /\ InputUnused

-----------------------------------------------------------------------------
(***************************************************************************)
(*                       PROCESS BINARY CREATION                           *)
(***************************************************************************)

\* The version of the running kernel (crate::KERNEL_MAJOR_VERSION and
\* crate::KERNEL_MINOR_VERSION).
KERNEL_MAJOR_VERSION == 2
KERNEL_MINOR_VERSION == 2

\* The largest u16.
U16Max == 65535

\* The kernel versions a TBF header declares; None is no declaration.
NoVersion == <<>>
HeaderVersions ==
    {NoVersion} \cup ({0, 1, 2, 3, U16Max} \X {0, 1, 2, 3, U16Max})

\* What create reads of the flash and of the parsed header: whether the
\* header and the footer region lie in the flash, whether the header
\* parses, is enabled and sits at its fixed address, whether the sum that
\* gives its actual address overflows a u32, and the version it declares;
\* and of the build: the debug_load_processes setting and
\* whether arithmetic overflow is checked.
CreateInputs ==
    [header_in_flash : BOOLEAN, parses : BOOLEAN, enabled : BOOLEAN,
     kernel_version : HeaderVersions, footers_in_flash : BOOLEAN,
     address_matches : BOOLEAN, address_overflows : BOOLEAN,
     require_kernel_version : BOOLEAN,
     debug_load_processes : BOOLEAN, overflow_checks : BOOLEAN]

CreateErr(e) == [kind |-> "Err", error |-> e, version |-> NoVersion]
IncompatibleKernelVersion(v) ==
    [kind |-> "Err", error |-> "IncompatibleKernelVersion", version |-> v]
CreateOk == [kind |-> "Ok", error |-> "none", version |-> NoVersion]
CreatePanicked == [kind |-> "panic", error |-> "none", version |-> NoVersion]

\* The rest of ProcessBinary::create after the kernel version is accepted.
\* With a fixed address in the header the actual address is the u32 sum of
\* the flash address and the protected size: a sum that overflows aborts
\* when overflow is checked and wraps otherwise.
create_footers(i) ==
    IF ~i.footers_in_flash THEN CreateErr("NotEnoughFlash")
    ELSE IF i.address_overflows /\ i.overflow_checks THEN CreatePanicked
    ELSE IF ~i.address_matches THEN CreateErr("IncorrectFlashAddress")
    ELSE CreateOk

\* ProcessBinary::create
create(i) ==
    IF ~i.header_in_flash THEN CreateErr("NotEnoughFlash")
    ELSE IF ~i.parses THEN CreateErr("TbfHeaderParseFailure")
    ELSE IF ~i.enabled THEN CreateErr("NotEnabledProcess")
    ELSE IF i.kernel_version # NoVersion
    THEN LET major == i.kernel_version[1]
             minor == i.kernel_version[2]
         IN IF KERNEL_MAJOR_VERSION # major \/ KERNEL_MINOR_VERSION < minor
            THEN IF i.debug_load_processes /\ major + 1 > U16Max
                    /\ i.overflow_checks
                 THEN \* the message formats (major+1)
                      CreatePanicked
                 ELSE IncompatibleKernelVersion(<<major, minor>>)
            ELSE create_footers(i)
    ELSE IF i.require_kernel_version
         THEN IncompatibleKernelVersion(NoVersion)
         ELSE create_footers(i)

\* The images create is applied to
CreateInit ==
    /\ fn_call \in {[fn |-> "create", input |-> i] : i \in CreateInputs}
    /\ fn_result = NoResult

ApplyCreate ==
    /\ fn_call.fn = "create"
    /\ fn_result = NoResult
    /\ fn_result' = create(fn_call.input)
    /\ UNCHANGED fn_call
    /\ FnUnchanged

-----------------------------------------------------------------------------
\* The screen split under sections that never stop writing: the history is
\* not kept, the sections only write, and the real screen accepts every
\* command, so every operation that is started completes.

WriteReactions == {r \in Reactions : r.kind # "set_write_frame"}

\* The fields of st, without the history.
SplitCommitFields(st) == SplitCommit([st EXCEPT !.log = EmptyLog])

\* A client calls write on its section from the main loop.
SteadyClientWrite ==
    \E s \in Sections, c \in BOOLEAN :
        /\ clientBufs[s] # {}
        /\ SplitCommitFields(SectionWrite(SplitState(TRUE), s,
                                          NextBuffer(clientBufs[s]), c))

\* The real screen completes its set_write_frame.
SteadyCommandComplete ==
    /\ dev.op = "set_write_frame"
    /\ SplitCommitFields(MuxCommandComplete(
           [SplitState(TRUE) EXCEPT !.dev = [DevIdle EXCEPT !.frame = dev.frame]]))

\* The real screen completes its write and returns the buffer.
SteadyWriteComplete ==
    /\ dev.op = "write"
    /\ \E react \in WriteReactions :
          SplitCommitFields(MuxWriteComplete(
              [SplitState(TRUE) EXCEPT !.dev = DevIdle, !.devResult = "Ok"],
              dev.buf, "Ok", react))

-----------------------------------------------------------------------------
(***************************************************************************)
(*                 THE SIZE OF THE VIRTUAL LEDS' IMAGE                     *)
(***************************************************************************)

LEFT_RIGTH_PADDING == 2
TOP_BOTTOM_PADDING == 2
TEXT_LEDS_PADDING == 2
TEXT_SPACING == 2
TEXT_TOP_BOTTOM_PADDING == 4

\* The const parameters NUM_LEDS, SCREEN_WIDTH and SCREEN_HEIGHT get_size is
\* instantiated with. A screen of fewer rows than the label's padding makes
\* get_led_width subtract below zero and is left out.
MaxLedCount == 3
MaxScreenWidth == 40
MaxScreenHeight == 16
MinScreenHeight == 2 * TEXT_TOP_BOTTOM_PADDING

\* The widths of usize on the targets of the kernel.
UsizeBits == {32, 64}

GetSizeInputs ==
    [num_leds : 1..MaxLedCount,
     screen_width : 0..MaxScreenWidth,
     screen_height : MinScreenHeight..MaxScreenHeight,
     overflow_checks : BOOLEAN,
     usize_bits : UsizeBits]

\* ScreenOnLed::get_char_width
get_char_width(height, c) ==
    CASE c = "l" -> (height * 3) \div 5
      [] c = "e" -> (height * 3) \div 5
      [] c = "d" -> (height * 2) \div 4
      [] OTHER -> 0

\* ScreenOnLed::get_led_width
get_led_width(screen_height) ==
    LET height == screen_height - (TEXT_TOP_BOTTOM_PADDING * 2)
        l_width == get_char_width(height, "l")
        e_width == get_char_width(height, "e")
        d_width == get_char_width(height, "d")
    IN l_width + TEXT_SPACING + e_width + TEXT_SPACING + d_width

\* A usize written without fixing the width n of the word: the value
\* (word_times * 2^n + plus) / over.  PlainValue(v) is a value the
\* arithmetic never wrapped; 2^n - k is WordValue(1, -k, 1).
WordValue(word_times, plus, over) ==
    [word_times |-> word_times, plus |-> plus, over |-> over]
PlainValue(v) == WordValue(0, v, 1)

\* 2^bits modulo m, for a word of 32 or of 64 bits.
WordResidue(bits, m) ==
    LET half == 65536 % m
        word32 == (half * half) % m
    IN IF bits = 32 THEN word32 ELSE (word32 * word32) % m

\* rounds is the number of times the loop body ran.
GetSizeOk(width, led_dimension, rounds) ==
    [kind |-> "Ok", width |-> width, led_dimension |-> led_dimension,
     rounds |-> rounds]
GetSizePanicked ==
    [kind |-> "Panic", width |-> 0, led_dimension |-> PlainValue(0),
     rounds |-> PlainValue(0)]
GetSizeSpins ==
    [kind |-> "Spins", width |-> 0, led_dimension |-> PlainValue(0),
     rounds |-> PlainValue(0)]

\* The while loop of get_size without overflow checks, from the round in
\* which the width itself wraps below zero: fixed is the width of the image
\* with LEDs of dimension zero, and k rounds after the dimension passed zero
\* the width is (fixed - NUM_LEDS * k) mod 2^n.  The loop stops at the
\* least k for which that is a width w within the screen, that is
\* NUM_LEDS * k = fixed - w + t * 2^n with the least number of wraps t and,
\* for it, the greatest w; the dimension is then 2^n - k.  After 2^n rounds
\* the dimension has taken every value of the word, so t < NUM_LEDS, and if
\* no k fits the loop never ends.
get_size_wrapped(i, fixed) ==
    LET residue == WordResidue(i.usize_bits, i.num_leds)
        available == i.screen_height - (TOP_BOTTOM_PADDING * 2)
        stops == {s \in (1..(i.num_leds - 1)) \X (0..i.screen_width) :
                     (fixed - s[2] + (s[1] * residue)) % i.num_leds = 0}
    IN IF stops = {}
       THEN GetSizeSpins
       ELSE LET last == CHOOSE s \in stops : \A o \in stops :
                            \/ s[1] < o[1]
                            \/ s[1] = o[1] /\ s[2] >= o[2]
            IN GetSizeOk(last[2],
                         WordValue(i.num_leds - last[1], last[2] - fixed,
                                   i.num_leds),
                         WordValue(last[1],
                                   fixed - last[2] + (i.num_leds * available),
                                   i.num_leds))

\* The while loop of get_size, entered with led_dimension; a dimension
\* below zero, -k, stands for the wrapped value 2^n - k.  With overflow
\* checks the subtraction below zero aborts; without them the dimension
\* wraps, and so does the product with NUM_LEDS and the sum.
RECURSIVE get_size_loop(_, _, _)
get_size_loop(i, led_width, led_dimension) ==
    IF i.overflow_checks /\ led_dimension = 0
    THEN GetSizePanicked
    ELSE LET available == i.screen_height - (TOP_BOTTOM_PADDING * 2)
             shrunk == led_dimension - 1
             leds_width == (shrunk * i.num_leds) + (i.num_leds - 1)
             width == LEFT_RIGTH_PADDING + led_width + TEXT_LEDS_PADDING
                          + leds_width + LEFT_RIGTH_PADDING
         IN IF width < 0
            THEN get_size_wrapped(i, width - (shrunk * i.num_leds))
            ELSE IF width > i.screen_width
            THEN get_size_loop(i, led_width, shrunk)
            ELSE GetSizeOk(width,
                           IF shrunk >= 0 THEN PlainValue(shrunk)
                           ELSE WordValue(1, shrunk, 1),
                           PlainValue(available - shrunk))

\* ScreenOnLed::get_size
get_size(i) ==
    get_size_loop(i, get_led_width(i.screen_height),
                  i.screen_height - (TOP_BOTTOM_PADDING * 2))

GetSizeInit ==
    /\ fn_call \in {[fn |-> "get_size", input |-> i] : i \in GetSizeInputs}
    /\ fn_result = NoResult

ApplyGetSize ==
    /\ fn_call.fn = "get_size"
    /\ fn_result = NoResult
    /\ fn_result' = get_size(fn_call.input)
    /\ UNCHANGED fn_call
    /\ FnUnchanged

-----------------------------------------------------------------------------
(***************************************************************************)
(*                             SPECIFICATIONS                              *)
(***************************************************************************)

\* The components a specification leaves alone stay as constructed.
CheckerUnused == CheckerNew /\ policy = NoPolicy

InitSplit ==
    /\ SplitNew /\ GpuNew /\ CheckerUnused
    /\ TableEmpty /\ EcdsaUnused /\ NoCallMade /\ AuxUnused

NextSplit ==
    \/ ClientSetWriteFrame
    \/ ClientWrite
    \/ ScreenCommandComplete
    \/ ScreenWriteComplete
    \/ DeferredCallDispatch

SpecSplit == InitSplit /\ [][NextSplit]_vars

\* The screen split in either build, with a userspace client that also
\* asks for a frame whose offset overflows.
InitSplitFar ==
    /\ SplitFieldsNew
    /\ splitLog \in {[EmptyLog EXCEPT !.overflow_checks = c] : c \in BOOLEAN}
    /\ GpuNew /\ CheckerUnused
    /\ TableEmpty /\ EcdsaUnused /\ NoCallMade /\ AuxUnused

NextSplitFar ==
    \/ NextSplit
    \/ ClientSetFarFrame

SpecSplitFar == InitSplitFar /\ [][NextSplitFar]_vars

InitGPU ==
    /\ SplitNew /\ GpuNew /\ CheckerUnused
    /\ TableEmpty /\ EcdsaUnused /\ NoCallMade /\ AuxUnused

NextGPU ==
    \/ GpuInitialize
    \/ GpuSetWriteFrame
    \/ GpuWrite
    \/ GpuDeferredCall
    \/ GpuResponse

SpecGPU == InitGPU /\ [][NextGPU]_vars

\* The GPU driver on a device that may also answer when nothing was asked.
NextGPUDevice ==
    \/ NextGPU
    \/ GpuUnsolicitedResponse

SpecGPUDevice == InitGPU /\ [][NextGPUDevice]_vars

\* The checker machine as constructed, its policy cell empty, and policies
\* that answer as the footers prescribe, which the board installs.
InitChecker ==
    /\ SplitNew /\ GpuNew /\ CheckerNew
    /\ TableEmpty /\ EcdsaUnused /\ NoCallMade /\ AuxUnused
    /\ policy = NoPolicy

NextChecker ==
    \/ CheckerStart
    \/ CheckerStartEarly
    \/ CheckerSetPolicy
    \/ PolicyCheckDone

SpecChecker == InitChecker /\ [][NextChecker]_vars

\* One check on a new machine, with a policy that answers every check it
\* has started.
NextCheckerFair ==
    \/ CheckerFirstStart
    \/ CheckerSetPolicy
    \/ PolicyCheckDone

\* Weak fairness of PolicyCheckDone, written out: the action is enabled
\* exactly while the policy has a check to answer.
PolicyAnswers ==
    \/ []<>(scripted_pending = -1)
    \/ []<><<PolicyCheckDone>>_vars

SpecCheckerFair == InitChecker /\ [][NextCheckerFair]_vars /\ PolicyAnswers

\* The checker machine as constructed, its policy cell empty, and
\* AppCheckerSignature, which the board installs as its policy.
InitSig ==
    /\ SplitNew /\ GpuNew /\ CheckerNew
    /\ TableEmpty /\ EcdsaUnused /\ NoCallMade /\ AuxUnused
    /\ policy = NoPolicy

NextSig ==
    \/ SigStart
    \/ SigSetPolicy
    \/ HasherAddDataDone
    \/ HasherHashDone
    \/ VerifierVerificationDone

SpecSig == InitSig /\ [][NextSig]_vars

\* The process table: binaries are loaded, checked, started and stopped.
InitProc ==
    /\ SplitNew /\ GpuNew /\ CheckerUnused
    /\ TableLoaded /\ EcdsaUnused /\ NoCallMade /\ AuxUnused

NextProc ==
    \/ ProcCredentialsChecked
    \/ ProcStart
    \/ ProcYield
    \/ ProcStop
    \/ ProcFault
    \/ ProcTerminate

SpecProc == InitProc /\ [][NextProc]_vars

\* The ECDSA verifier alone, with or without a usable key
InitEcdsa == SplitNew /\ GpuNew /\ CheckerUnused /\ TableEmpty /\ EcdsaNew /\ NoCallMade /\ AuxUnused
NextEcdsa ==
    \/ EcdsaVerify
    \/ EcdsaActivateKey
    \/ EcdsaDeferredCall
SpecEcdsa == InitEcdsa /\ [][NextEcdsa]_vars

\* to_short_id applied to every drawn credential payload
InitShortId == SplitNew /\ GpuNew /\ CheckerUnused /\ TableEmpty /\ EcdsaUnused /\ ShortIdInit /\ AuxUnused
NextShortId == ApplyToShortId
SpecShortId == InitShortId /\ [][NextShortId]_vars

\* The command-restriction capsule and the commands processes call on it
InitRestrict == SplitNew /\ GpuNew /\ CheckerUnused /\ TableEmpty /\ EcdsaUnused /\ RestrictNew /\ AuxUnused
NextRestrict == RestrictCommand
SpecRestrict == InitRestrict /\ [][NextRestrict]_vars

\* calculate_absolute_frame applied to every drawn allotment and relative frame
InitAbsFrame == SplitNew /\ GpuNew /\ CheckerUnused /\ TableEmpty /\ EcdsaUnused /\ AbsFrameInit /\ AuxUnused
NextAbsFrame == ApplyAbsFrame
SpecAbsFrame == InitAbsFrame /\ [][NextAbsFrame]_vars

\* The monochrome adapter and its client.
InitMono ==
    /\ SplitNew /\ GpuNew /\ CheckerUnused /\ TableEmpty /\ EcdsaUnused
    /\ NoCallMade /\ MonoNew /\ LedUnused /\ BoundaryUnused /\ InputUnused
NextMono ==
    \/ MonoSetWriteFrame
    \/ MonoWrite
    \/ MonoCommandComplete
    \/ MonoDeferredCall
SpecMono == InitMono /\ [][NextMono]_vars

\* The virtual LEDs, their users and the screen below.
InitLed ==
    /\ SplitNew /\ GpuNew /\ CheckerUnused /\ TableEmpty /\ EcdsaUnused
    /\ NoCallMade /\ MonoNew /\ LedNew /\ BoundaryUnused /\ InputUnused
NextLed ==
    \/ LedOn
    \/ LedOff
    \/ LedToggle
    \/ LedRead
    \/ LedInitializeLeds
    \/ LedScreenIsReady
    \/ LedWriteComplete
SpecLed == InitLed /\ [][NextLed]_vars

\* ProcessBinary::create applied to one image.
InitCreate == SplitNew /\ GpuNew /\ CheckerUnused /\ TableEmpty /\ EcdsaUnused /\ CreateInit /\ AuxUnused
NextCreate == ApplyCreate
SpecCreate == InitCreate /\ [][NextCreate]_vars

\* The x86 boundary and one process's stored state.
InitBoundary ==
    /\ SplitNew /\ GpuNew /\ CheckerUnused /\ TableEmpty /\ EcdsaUnused
    /\ NoCallMade /\ MonoNew /\ LedNew /\ BoundaryUnused /\ InputUnused
NextBoundary ==
    \/ BoundaryInitializeProcess
    \/ BoundarySetProcessFunction
    \/ BoundarySwitchToProcess
SpecBoundary == InitBoundary /\ [][NextBoundary]_vars

\* The screen split with sections that never stop writing and a real
\* screen that completes every command it was given.
NextSteady ==
    \/ SteadyClientWrite
    \/ SteadyCommandComplete
    \/ SteadyWriteComplete
SpecSplitSteady ==
    /\ InitSplit
    /\ [][NextSteady]_vars
    /\ WF_vars(SteadyCommandComplete)
    /\ WF_vars(SteadyWriteComplete)

\* ScreenOnLed::get_size for every drawn number of LEDs and screen size.
InitGetSize == SplitNew /\ GpuNew /\ CheckerUnused /\ TableEmpty /\ EcdsaUnused /\ GetSizeInit /\ AuxUnused
NextGetSize == ApplyGetSize
SpecGetSize == InitGetSize /\ [][NextGetSize]_vars

\* The VirtIO input driver and its device.
InitInput ==
    /\ SplitNew /\ GpuNew /\ CheckerUnused /\ TableEmpty /\ EcdsaUnused
    /\ NoCallMade /\ MonoNew /\ LedUnused /\ BoundaryUnused
    /\ vinput = InputFresh
NextInput ==
    \/ InputReinsert
    \/ InputBufferChainReady
SpecInput == InitInput /\ [][NextInput]_vars

-----------------------------------------------------------------------------
\* Properties of the screen split.

IsPrefix(a, b) == Len(a) <= Len(b) /\ \A i \in 1..Len(a) : a[i] = b[i]

\* Nothing is left that would call the multiplexer: no current user, no
\* command in the real screen, no deferred call set.
SplitAtRest == current_user.split = "None" /\ dev.op = "idle" /\ ~deferred_call

\* C1: the real screen never has more than one operation in flight: every
\* command it is given arrives while it is idle and while no section is the
\* multiplexer's current user, and while it executes a command the current
\* user is the section the command was issued for.
C1_OneOperationInFlight ==
    /\ ~splitLog.overlap
    /\ ~splitLog.issuedWhileUser
    /\ (dev.op # "idle" => current_user.split = splitLog.devOwner)

\* C1's case: the real screen executes the kernel section's write while the
\* userspace section has an operation queued.
C1_Witness ==
    /\ dev.op = "write"
    /\ splitLog.devOwner = "K"
    /\ pending["U"].type # "None"

\* C2: while an operation of a section is outstanding (accepted with Ok, its
\* completion callback not yet delivered), no further set_write_frame or
\* write on that section returns Ok: each returns BUSY.
C2_BusyWhileOutstanding == ~splitLog.okWhileOutstanding

\* C3: when the real screen has accepted every command and no client has
\* called its section while an operation of it was outstanding, each section's
\* client has received completion callbacks only for the operations it had
\* accepted, in order and with the same buffers, and once nothing is left to
\* run (no current user, real screen idle, no deferred call) it has received
\* one for every accepted operation.
C3_AcceptedIsCompleted ==
    (~splitLog.rejected /\ ~splitLog.okWhileOutstanding) =>
        \A s \in Sections :
            /\ IsPrefix(splitLog.delivered[s], splitLog.accepted[s])
            /\ (SplitAtRest => splitLog.delivered[s] = splitLog.accepted[s])

-----------------------------------------------------------------------------
\* Properties of the VirtIO GPU driver.

\* r lies inside f
Inside(r, f) ==
    /\ r.x >= f.x
    /\ r.y >= f.y
    /\ r.x + r.width <= f.x + f.width
    /\ r.y + r.height <= f.y + f.height

\* C4: when a write of n pixels has completed, the rectangles of the
\* TRANSFER_TO_HOST_2D commands issued for it hold exactly n pixels in total
\* (sum of width * height), whatever the frame and the cursor position.
C4_TransferredPixelsSumToN ==
    gpuLog.completed => gpuLog.sent = gpuLog.writeN

\* C5: the rectangle of every TRANSFER_TO_HOST_2D and RESOURCE_FLUSH command
\* given to the device lies inside the rectangle of the last set_write_frame.
C5_RectInsideWriteFrame ==
    control_queue.type \in {"TRANSFER_TO_HOST_2D", "RESOURCE_FLUSH"} =>
        Inside(control_queue.r, current_draw_area.rect)

\* C6: write_complete(buffer, Ok) is delivered only in reaction to the
\* response to RESOURCE_DETACH_BACKING; at that moment the driver is Idle and
\* holds its request and response buffers again, and the buffer handed back
\* is the client's, with the active range it was given with.
C6_CompleteAfterDetach ==
    gpuLog.completed =>
        /\ gpuLog.completeAfter = "RESOURCE_DETACH_BACKING"
        /\ gpuLog.atComplete = [state |-> "Idle", buffers |-> TRUE]
        /\ gpuLog.returned = gpuLog.given

\* C6's case: a write of a buffer whose active range does not start at 0
\* has transferred pixels and has completed.
C6_Witness ==
    /\ gpuLog.completed
    /\ gpuLog.sent > 0
    /\ gpuLog.given.start > 0

-----------------------------------------------------------------------------
\* Properties of the checker machine and of the signature policy.

\* The footers of the binary under check the policy answers with Accept or
\* with Reject, by their zero-based index, and the first of them.
Decisive == {i \in 0..(Len(chkLog.binary.footers) - 1) :
                chkLog.binary.footers[i + 1].answer \in {"Accept", "Reject"}}
FirstDecisive == CHOOSE i \in Decisive : \A j \in Decisive : i <= j

\* The policy answers every footer of the binary under check: none makes
\* check_credentials fail with an error other than NOSUPPORT and ALREADY.
AllAnswered ==
    \A i \in 1..Len(chkLog.binary.footers) :
        chkLog.binary.footers[i].answer # "FAIL"

\* The indices 0, 1, ..., n - 1 in order
Upto(n) == [i \in 1..n |-> i - 1]

\* C7: for a binary whose footers the policy answers in order, once the
\* policy has nothing left to answer the machine has notified its client
\* once: with Ok when the first footer answered Accept or Reject is an
\* Accept, or when no footer is answered Accept or Reject and the policy does
\* not require credentials; with CredentialsNotAccepted when none is and the
\* policy requires credentials.  Footers answered Pass, with an error, with
\* NOSUPPORT or ALREADY are skipped: every footer up to the deciding one has
\* been submitted in order, and none behind an accepted footer is submitted.
C7_OkExactlyWhenAccepted ==
    (chkLog.starts > 0 /\ chkLog.withPolicy /\ AllAnswered) =>
        /\ IsPrefix(chkLog.submitted, Upto(Len(chkLog.binary.footers)))
        /\ Decisive # {} => Len(chkLog.submitted) <= FirstDecisive + 1
        /\ scripted_pending = -1 =>
              /\ Len(chkLog.done) = 1
              /\ chkLog.submitted =
                    Upto(IF Decisive # {} THEN FirstDecisive + 1
                         ELSE Len(chkLog.binary.footers))
              /\ chkLog.done[1].kind = "Ok" <=>
                    \/ /\ Decisive # {}
                       /\ chkLog.binary.footers[FirstDecisive + 1].answer = "Accept"
                    \/ Decisive = {} /\ ~chkLog.policy.requires
              /\ (Decisive = {} /\ chkLog.policy.requires) =>
                    chkLog.done[1].kind = "CredentialsNotAccepted"

\* C7's case: the policy has skipped a footer and accepted the next one,
\* the machine has reported Ok and has left the footer behind it alone.
C7_Witness ==
    /\ AllAnswered
    /\ chkLog.done = <<ResultOk>>
    /\ chkLog.submitted = <<0, 1>>
    /\ Len(chkLog.binary.footers) > 1
    /\ chkLog.policy.requires

\* C8: when the policy answers Reject for the footer at index i, the machine
\* notifies its client with CredentialsRejected(i) and submits no footer
\* behind i.
C8_RejectedWithIndex ==
    chkLog.rejectedAt # -1 =>
        /\ chkLog.done = <<[kind |-> "CredentialsRejected",
                            index |-> chkLog.rejectedAt]>>
        /\ \A k \in 1..Len(chkLog.submitted) :
              chkLog.submitted[k] <= chkLog.rejectedAt

\* C9: every check that check_credentials has started with Ok is answered
\* with check_done, once: never more check_done calls than started checks,
\* and once no callback of the hasher or the verifier is to come, as many.
C9_CheckDoneExactlyOnce ==
    /\ chkLog.check_dones <= chkLog.startedOk
    /\ PolicyAtRest => chkLog.check_dones = chkLog.startedOk

\* With AppCheckerSignature installed: the machine reports Ok only when the
\* verifier has reported Ok(true) for a footer of the binary; the policy
\* answers Accept for Ok(true) and Pass for Ok(false) and for an error,
\* never Reject; it requires credentials.
SigAnswers ==
    /\ \A i \in 1..Len(chkLog.done) :
          /\ chkLog.done[i].kind = "Ok" => chkLog.verifiedTrue
          /\ chkLog.done[i].kind \in
                {"Ok", "CredentialsNotAccepted", "InternalError"}
    /\ \A a \in chkLog.answers :
          a[2] = IF a[1] = "OkTrue" THEN "Accept" ELSE "Pass"
    /\ require_credentials(ChkRecord)

\* A check started with the policy installed has come to rest and no
\* footer of the binary was verified.
RestsUnverified ==
    /\ chkLog.starts > 0
    /\ chkLog.withPolicy
    /\ PolicyAtRest
    /\ ~chkLog.verifiedTrue

\* hasher.add_data refuses the binary for one of its footers.
HashingRefused ==
    \E i \in 1..Len(chkLog.binary.footers) :
        chkLog.binary.footers[i].add_data = "FAIL"

-----------------------------------------------------------------------------
\* Properties of is_runnable and of the process table.

Slots == 1..NumProcs

\* C11: when processes are started only while is_runnable holds for them,
\* no two processes with the same Application Identifier (different_identifier
\* is false for them) are running at the same time.
C11_SameIdentifierNeverBothRunning ==
    \A i \in Slots, j \in Slots :
        (i # j /\ is_running(processes[i]) /\ is_running(processes[j])) =>
            different_identifier(processes[i], processes[j])

\* C11's case: a process runs while another one with the same Application
\* Identifier, approved and of a newer version, is kept from starting.
C11_Witness ==
    \E i \in Slots, j \in Slots :
        /\ i # j
        /\ is_running(processes[i])
        /\ processes[j].state = "CredentialsApproved"
        /\ processes[j].version > processes[i].version
        /\ ~different_identifier(processes[i], processes[j])
        /\ ~is_runnable(processes[j], processes)

\* The blocking condition with (b) read as: other has neither a different
\* identifier nor a different ShortID.
BlocksBothSame(process, other) ==
    /\ other.state \notin {"CredentialsUnchecked", "CredentialsFailed"}
    /\ ~different_identifier(process, other) /\ ~short_app_id_ne(other, process)
    /\ \/ is_running(other)
       \/ /\ other.version > process.version
          /\ other.state \notin {"CredentialsUnchecked", "CredentialsFailed",
                                 "Terminated"}

\* The blocking condition with (b) read as: other does not have both a
\* different identifier and a different ShortID.
BlocksEitherSame(process, other) ==
    /\ other.state \notin {"CredentialsUnchecked", "CredentialsFailed"}
    /\ ~different_identifier(process, other) \/ ~short_app_id_ne(other, process)
    /\ \/ is_running(other)
       \/ /\ other.version > process.version
          /\ other.state \notin {"CredentialsUnchecked", "CredentialsFailed",
                                 "Terminated"}

\* C12 as stated: is_runnable is false unless the process is
\* CredentialsApproved or Terminated, and otherwise true exactly when no entry
\* of the table is approved, has the same identifier and the same ShortID,
\* and is running or is a newer version that could run.
C12_Original ==
    \A i \in Slots :
        processes[i] # NoProcess =>
            (is_runnable(processes[i], processes) <=>
                /\ processes[i].state \in {"CredentialsApproved", "Terminated"}
                /\ ~\E j \in Slots : /\ processes[j] # NoProcess
                                     /\ BlocksBothSame(processes[i], processes[j]))

\* C12: is_runnable is false unless the process is CredentialsApproved or
\* Terminated, and otherwise true exactly when no entry of the table is
\* approved, shares the identifier or the ShortID (it does not differ in
\* both), and is running or is a newer version that could run.
C12_RunnableExactly ==
    \A i \in Slots :
        processes[i] # NoProcess =>
            (is_runnable(processes[i], processes) <=>
                /\ processes[i].state \in {"CredentialsApproved", "Terminated"}
                /\ ~\E j \in Slots : /\ processes[j] # NoProcess
                                     /\ BlocksEitherSame(processes[i], processes[j]))

\* C12's case: an approved process is kept from starting by a running one
\* that shares its identifier while their ShortIDs differ.
C12_Witness ==
    \E i \in Slots, j \in Slots :
        /\ i # j
        /\ processes[i].state = "CredentialsApproved"
        /\ is_running(processes[j])
        /\ ~different_identifier(processes[i], processes[j])
        /\ short_app_id_ne(processes[j], processes[i])
        /\ ~is_runnable(processes[i], processes)

\* The table holds exactly P1 (version 2) in slot i and P2 (version 1) in
\* slot j, with the same fixed ShortID and the same identifier.
IsP1P2(i, j) ==
    /\ i # j
    /\ \A k \in Slots \ {i, j} : processes[k] = NoProcess
    /\ processes[i].version = 2 /\ processes[j].version = 1
    /\ ~short_app_id_ne(processes[i], processes[j])
    /\ ~different_identifier(processes[i], processes[j])
    /\ processes[j].state = "CredentialsApproved"

\* C13 as stated: with P1 Running, P2 is not runnable and P1 is; with P1
\* Terminated, P2 is runnable.
C13_Original ==
    \A i \in Slots, j \in Slots :
        IsP1P2(i, j) =>
            /\ processes[i].state = "Running" =>
                  /\ ~is_runnable(processes[j], processes)
                  /\ is_runnable(processes[i], processes)
            /\ processes[i].state = "Terminated" =>
                  is_runnable(processes[j], processes)

\* C13: with P1 (version 2) Running and P2 (version 1) CredentialsApproved,
\* same ShortID and same identifier, is_runnable is false for P2 and false
\* for P1 as well (P1 is running, so it is not a candidate to start); with P1
\* Terminated, is_runnable is true for P2.
C13_NewerRunningBlocksOlder ==
    \A i \in Slots, j \in Slots :
        IsP1P2(i, j) =>
            /\ processes[i].state = "Running" =>
                  /\ ~is_runnable(processes[j], processes)
                  /\ ~is_runnable(processes[i], processes)
            /\ processes[i].state = "Terminated" =>
                  is_runnable(processes[j], processes)

\* C13's case: P1 has run and is Terminated, P2 is approved and runnable.
C13_Witness ==
    \E i \in Slots, j \in Slots :
        /\ IsP1P2(i, j)
        /\ processes[i].state = "Terminated"
        /\ is_runnable(processes[j], processes)

-----------------------------------------------------------------------------
\* Properties of the ShortID derivation.

\* The first four bytes read as a big-endian u32
BigEndian32(data) == U32(data[1], data[2], data[3], data[4])

\* C14: to_short_id returns Fixed of the big-endian value of the first four
\* credential bytes with bit 31 set, so that [0,0,0,1] gives
\* Fixed(0x80000001); it returns LocallyUnique for [0,0,0,0] and for fewer
\* than four bytes.
C14_TopBitForced ==
    (fn_call.fn = "to_short_id" /\ fn_result # NoResult) =>
        LET data == fn_call.data
        IN IF Len(data) < 4 THEN fn_result = LocallyUnique
           ELSE IF BigEndian32(data) = U32Zero THEN fn_result = LocallyUnique
           ELSE fn_result = Fixed(U32Or(U32(128, 0, 0, 0), BigEndian32(data)))

-----------------------------------------------------------------------------
\* Properties of the command restrictions.

\* The permissions of the caller of the last command: its entry's index.
CallerPerm == get_app_permitted(fn_call, fn_call.processid)

\* Every call of the underlying driver's command the last command made got
\* arguments inside the caller's permitted ranges, and the caller has
\* permissions.
DriverArgsPermitted ==
    \A k \in 1..Len(fn_result.driver) :
        /\ CallerPerm # 0
        /\ RangeContains(fn_call.permissions[CallerPerm].permitted_arg1,
                         fn_result.driver[k].arg1)
        /\ RangeContains(fn_call.permissions[CallerPerm].permitted_arg2,
                         fn_result.driver[k].arg2)

\* C15 as stated: for every process, command number and arguments, the
\* underlying driver is invoked only with arguments in the caller's permitted
\* ranges, and never for a process without permissions.
C15_Original ==
    fn_call.fn = "command" => DriverArgsPermitted

\* C15: for every process, every command number other than 0 and all
\* arguments, the underlying driver is invoked only with arguments in the
\* caller's permitted ranges, and never for a process without permissions;
\* command 0 goes to the driver unchanged for every process.
C15_DriverArgsPermittedExceptZero ==
    fn_call.fn = "command" =>
        IF fn_call.command_num # 0 THEN DriverArgsPermitted
        ELSE fn_result.driver = <<DriverCall(0, fn_call.arg1, fn_call.arg2)>>

\* C15's case: a command other than 0 and the count command, from a process
\* with permissions, has reached the driver with translated arguments.
C15_Witness ==
    /\ fn_call.fn = "command"
    /\ fn_call.command_num \notin {0, fn_call.command_num_num}
    /\ CallerPerm # 0
    /\ fn_call.arg1 > 0
    /\ fn_call.permissions[CallerPerm].permitted_arg1.start > 0
    /\ Len(fn_result.driver) = 1

\* C16: for a process with permissions and a command that is neither 0 nor
\* the count command, command forwards the translated arguments to the
\* driver exactly when start + arg lies in the permitted range for both
\* arguments, and otherwise returns NOSUPPORT without invoking the driver.
C16_ForwardsExactlyInRange ==
    (/\ fn_call.fn = "command"
     /\ fn_call.command_num \notin {0, fn_call.command_num_num}
     /\ CallerPerm # 0) =>
        LET perm == fn_call.permissions[CallerPerm]
            t1 == perm.permitted_arg1.start + fn_call.arg1
            t2 == perm.permitted_arg2.start + fn_call.arg2
        IN IF RangeContains(perm.permitted_arg1, t1)
              /\ RangeContains(perm.permitted_arg2, t2)
           THEN /\ fn_result.kind = "return"
                /\ Len(fn_result.driver) = 1
                /\ fn_result.driver[1].arg1 = t1
                /\ fn_result.driver[1].arg2 = t2
           ELSE /\ fn_result.kind = "return"
                /\ fn_result.ret = "NOSUPPORT"
                /\ fn_result.driver = <<>>

-----------------------------------------------------------------------------
\* Properties of the ECDSA verifier.

\* C17: activate_key accepts only index 0: for every other index it returns
\* Err(INVAL), schedules no deferred call, and activate_key_done is never
\* delivered for it.
C17_OnlyIndexZero ==
    /\ (ecdsaLog.handler = "activate_key"
        /\ ecdsaLog.lastActivate.index >= get_key_count) =>
           /\ ecdsaLog.lastActivate.ret = "INVAL"
           /\ ~ecdsaLog.lastActivate.set
    /\ \A index \in ecdsaLog.keyDone : index < get_key_count

\* The callbacks a dispatch owes for what was scheduled last
OutcomeOf(scheduled) ==
    CASE scheduled.kind = "Verifying" ->
             <<[cb |-> "verification_done", result |-> scheduled.verified,
                hash |-> scheduled.buf, signature |-> scheduled.buf,
                index |-> 0]>>
      [] scheduled.kind = "ChangingKey" ->
             <<[cb |-> "activate_key_done", result |-> TRUE, hash |-> 0,
                signature |-> 0, index |-> scheduled.index]>>
      [] OTHER -> <<>>

\* C18: a deferred-call dispatch makes exactly one callback, the outcome of
\* the operation scheduled last (verification_done with the result and the
\* buffers of that verify, or activate_key_done with that index and Ok);
\* verify and activate_key make no callback themselves; a dispatch with
\* nothing pending makes none.
C18_OneOutcomePerDispatch ==
    /\ ecdsaLog.handler \in {"verify", "activate_key"} =>
           ecdsaLog.callbacks = <<>>
    /\ ecdsaLog.handler = "deferred" =>
           /\ ecdsaLog.reported.kind # "None"
           /\ Len(ecdsaLog.callbacks) = 1
           /\ ecdsaLog.callbacks = OutcomeOf(ecdsaLog.reported)
    /\ ecdsa_state = EcdsaNoState =>
           ecdsa_handle_deferred_call(EcdsaRecord).log.callbacks = <<>>

\* C18's case: a verify was accepted, activate_key was called before the
\* dispatch, and the dispatch has reported the key change alone.
C18_Witness ==
    /\ ecdsaLog.handler = "deferred"
    /\ ecdsaLog.accepted > 0
    /\ ecdsaLog.delivered = 0
    /\ ecdsaLog.reported.kind = "ChangingKey"
    /\ Len(ecdsaLog.callbacks) = 1
    /\ ecdsaLog.callbacks[1].cb = "activate_key_done"

-----------------------------------------------------------------------------
\* Properties of the absolute frame.

\* C19: for every relative frame, calculate_absolute_frame returns a
\* rectangle inside the section's allotted rectangle: x and y not below the
\* allotment's, x + width and y + height not beyond its far edges; for the
\* allotment {10,10,50,50} and the relative frame {40,40,30,30} it returns
\* {50,50,10,10}.
C19_AbsoluteFrameInside ==
    (fn_call.fn = "calculate_absolute_frame" /\ fn_result # NoResult) =>
        LET sf == fn_call.split_frame
            f == fn_result.frame
        IN /\ fn_result.kind = "return"
           /\ f.x >= sf.x
           /\ f.y >= sf.y
           /\ f.x + f.width <= sf.x + sf.width
           /\ f.y + f.height <= sf.y + sf.height
           /\ (sf = Rect(10, 10, 50, 50)
               /\ fn_call.active_frame = Rect(40, 40, 30, 30)) =>
                  f = Rect(50, 50, 10, 10)

-----------------------------------------------------------------------------
\* C20: set_write_frame and write are accepted only in state Idle and return
\* BUSY in every other state, so the driver never has more than one
\* control-queue command or pending deferred completion outstanding.
C20_AcceptedOnlyWhenIdle ==
    /\ (gpuLog.call.op \in {"set_write_frame", "write"}
        /\ gpuLog.call.before # "Idle") => gpuLog.ret = "BUSY"
    /\ gpuLog.outstanding <= 1
    /\ ~(control_queue.type # "None" /\ pending_deferred_call_mask)
    /\ gpu_state = "Idle" =>
           (control_queue.type = "None" /\ ~pending_deferred_call_mask)

\* C20's case: write was called while a transfer of an earlier write was
\* with the device, and was refused.
C20_Witness ==
    /\ gpuLog.call = [op |-> "write", before |-> "DrawTransferToHost2D"]
    /\ gpuLog.ret = "BUSY"
    /\ gpuLog.outstanding = 1
    /\ control_queue.type = "TRANSFER_TO_HOST_2D"

-----------------------------------------------------------------------------
\* The commands of the initialization, in order
InitSequence ==
    <<"RESOURCE_CREATE_2D", "RESOURCE_ATTACH_BACKING", "SET_SCANOUT",
      "RESOURCE_DETACH_BACKING">>

\* How many commands of the initialization have been issued in a state
InitStep(state) ==
    CASE state = "Uninitialized" -> 0
      [] state = "InitializingResourceCreate2D" -> 1
      [] state = "InitializingResourceAttachBacking" -> 2
      [] state = "InitializingSetScanout" -> 3
      [] OTHER -> 4

\* C21: initialize returns ALREADY unless the state is Uninitialized;
\* otherwise the driver issues RESOURCE_CREATE_2D, RESOURCE_ATTACH_BACKING,
\* SET_SCANOUT, RESOURCE_DETACH_BACKING in that order, each after the OK
\* response to the one before, and only after the last response is it Idle
\* and has it called screen_is_ready, once.
C21_InitializeSequence ==
    /\ gpuLog.call.op = "initialize" =>
           (gpuLog.ret = "ALREADY" <=> gpuLog.call.before # "Uninitialized")
    /\ gpuLog.initCmds = SubSeq(InitSequence, 1, InitStep(gpu_state))
    /\ gpu_state \in InitializingStates =>
           \/ control_queue.type = InitSequence[InitStep(gpu_state)]
           \/ gpuPanic
    /\ gpuLog.ready = IF gpu_state \in InitializingStates \cup {"Uninitialized"}
                      THEN 0 ELSE 1
    /\ gpuLog.ready = 1 => gpuLog.readyAfter = "RESOURCE_DETACH_BACKING"

\* C21's case: the initialization has run to its end, and a second
\* initialize has been refused.
C21_Witness ==
    /\ gpuLog.call = [op |-> "initialize", before |-> "Idle"]
    /\ gpuLog.ret = "ALREADY"
    /\ gpuLog.ready = 1
    /\ gpuLog.initCmds = InitSequence

-----------------------------------------------------------------------------
\* Properties of the monochrome adapter.

\* The last operation was a write of more pixels than the budget of the
\* write frame holds.
MonoOverBudget ==
    /\ mono.log.call.op = "write"
    /\ 8 * mono.log.call.len > mono.log.call.budget

\* C22: a write whose buffer holds more pixels than the remaining budget of
\* the write frame (the whole frame when continue_write is false) returns
\* Err(SIZE) to its caller and writes no pixel.
C22_SizeErrorReturned ==
    MonoOverBudget =>
        /\ mono.log.ret = "SIZE"
        /\ ~mono.panic
        /\ mono.log.written = {}

\* The pixels of a rectangle.
PixelsOf(r) ==
    {<<px, py>> : px \in r.x..(r.x + r.width - 1),
                  py \in r.y..(r.y + r.height - 1)}

\* The last operation was a write within the budget of the write frame.
MonoWithinBudget ==
    /\ mono.log.call.op = "write"
    /\ 8 * mono.log.call.len <= mono.log.call.budget

\* C33: a write within the budget, after any sequence of set_write_frame
\* and write calls, is carried out without a failed assertion; every pixel
\* it writes lies in the write frame and on the screen, and the budget that
\* remains is the one before less the pixels written, never below zero.
C33_WritesStayInFrame ==
    MonoWithinBudget =>
        /\ ~mono.panic
        /\ mono.log.ret = "Ok"
        /\ mono.log.written \subseteq PixelsOf(mono.log.frame)
        /\ mono.log.written \subseteq PixelsOf(Rect(0, 0, MonoWidth, MonoHeight))
        /\ Cardinality(mono.log.written) = 8 * mono.log.call.len
        /\ mono.write_frame.remaining = mono.log.call.budget - 8 * mono.log.call.len
        /\ mono.write_frame.remaining >= 0

\* A continued write has gone on from the middle of the first eight rows
\* into the second eight rows of a frame that is not the whole screen.
C33_Witness ==
    /\ MonoWithinBudget
    /\ mono.log.call.cont
    /\ mono.log.frame = Rect(0, 0, MonoWidth, 16)
    /\ mono.log.call.len = MonoWidth
    /\ mono.log.call.budget < MonoWidth * 16
    /\ mono.write_frame.offset.y = 8
    /\ \E px \in mono.log.written : px[2] < 8
    /\ \E px \in mono.log.written : px[2] >= 8

-----------------------------------------------------------------------------
\* Properties of the virtual LEDs.

\* The last call was on, off or toggle, made after the first
\* screen_is_ready.
LedSwitchedWhenReady ==
    /\ onled.log.call.op \in {"on", "off", "toggle"}
    /\ onled.log.call.initialized

\* C23: after the first screen_is_ready, every on, off or toggle renders
\* the state of its LED and issues exactly one write to the screen, whether
\* or not the write_complete of an earlier write has returned.
C23_EverySwitchWrites ==
    LedSwitchedWhenReady =>
        /\ onled.log.rendered = {onled.log.call.index}
        /\ onled.log.writes = 1

-----------------------------------------------------------------------------
\* Properties of ProcessBinary::create.

\* create has run on an enabled header that parses and declares a kernel
\* version.
CreateRanOnVersion ==
    /\ fn_call.fn = "create"
    /\ fn_result # NoResult
    /\ fn_call.input.header_in_flash
    /\ fn_call.input.parses
    /\ fn_call.input.enabled
    /\ fn_call.input.kernel_version # NoVersion

\* C24: for an enabled header that parses and declares KernelVersion
\* (major, minor), create fails with
\* IncompatibleKernelVersion{Some((major, minor))} when major differs from
\* the kernel's major version or minor exceeds the kernel's minor version,
\* and does not fail with that error otherwise.
C24_IncompatibleVersionRejected ==
    CreateRanOnVersion =>
        LET major == fn_call.input.kernel_version[1]
            minor == fn_call.input.kernel_version[2]
        IN IF major # KERNEL_MAJOR_VERSION \/ minor > KERNEL_MINOR_VERSION
           THEN fn_result = IncompatibleKernelVersion(<<major, minor>>)
           ELSE fn_result.error # "IncompatibleKernelVersion"

-----------------------------------------------------------------------------
\* Properties of the x86 boundary.

\* The last call was initialize_process on a region smaller than
\* MIN_APP_BRK, app_brk below accessible_memory_start included.
RegionTooSmall ==
    /\ boundary.log.call.op = "initialize_process"
    /\ \/ WordLess(boundary.log.call.app_brk, boundary.log.call.start)
       \/ WordLess(WordSub(boundary.log.call.app_brk,
                           boundary.log.call.start), WordOf(MIN_APP_BRK))

\* C25: initialize_process returns an error for every region smaller than
\* the minimum break size of 20 bytes, app_brk below
\* accessible_memory_start included; on success the stored stack pointer is
\* app_brk - 16 and lies within [accessible_memory_start, app_brk].
C25_SmallRegionRejected ==
    /\ RegionTooSmall => boundary.log.ret = "Err" /\ ~boundary.panic
    /\ (boundary.log.call.op = "initialize_process"
        /\ boundary.log.ret = "Ok") =>
           /\ boundary.esp = WordSub(boundary.log.call.app_brk, WordOf(16))
           /\ WordLeq(boundary.log.call.start, boundary.esp)
           /\ WordLeq(boundary.esp, boundary.log.call.app_brk)

\* C26: once switch_to_process has returned Fault for a stored state
\* because of a CPU exception (any vector below IDT_RESERVED_EXCEPTIONS,
\* any error code), every later switch_to_process on that state returns
\* Fault without entering user mode.
C26_FaultedNeverRuns ==
    [][(boundary.log.exceptionFault
        /\ boundary'.log.call.op = "switch_to_process"
        /\ boundary' # boundary)
       => (boundary'.log.ret = "Fault" /\ ~boundary'.log.entered)]_vars

-----------------------------------------------------------------------------
\* The steps of a section's write through the multiplexer.

\* The real screen is given a set_write_frame in this step: it is for the
\* write the owning section has submitted, carries the absolute frame of
\* that section, and the write waits in current_user.
FrameIssuedFirst ==
    (dev'.op = "set_write_frame" /\ dev.op # "set_write_frame") =>
        LET s == splitLog'.devOwner
            op == splitLog'.submitted[s]
        IN /\ op.type = "WriteBuffer"
           /\ current_user' = User(s, "WriteSetFrame", op.buf, op.cont)
           /\ dev'.frame = calculate_absolute_frame(SplitFrame[s],
                                                    write_frame'[s])

\* The real screen is given a write in this step: the step is the
\* command_complete of the set_write_frame, and the write carries the
\* waiting buffer and continue flag for the same section.
WriteIssuedAfterCommandComplete ==
    (dev'.op = "write" /\ dev.op # "write") =>
        /\ dev.op = "set_write_frame"
        /\ current_user.state = "WriteSetFrame"
        /\ dev'.buf = current_user.buf
        /\ dev'.cont = current_user.cont
        /\ splitLog'.devOwner = current_user.split
        /\ current_user' = User(current_user.split, "WriteBuffer", 0, FALSE)

\* While the real screen executes a command the current user stays.
UserKeptWhileBusy ==
    (dev.op # "idle" /\ dev' = dev) => current_user' = current_user

\* A section's write_complete is called in this step: the step is the
\* write_complete of the real screen, the section is the current user, the
\* buffer and the result are the real screen's, the current user was
\* cleared before the call and request_operation ran after it.
ForwardedAfterWriteComplete ==
    /\ splitLog'.forward # NoForward =>
          /\ dev.op = "write"
          /\ splitLog'.forward.split = current_user.split
          /\ splitLog'.forward.buf = dev.buf
          /\ splitLog'.forward.sameResult
          /\ splitLog'.forward.userCleared
          /\ current_user' = NoUser => pending'["K"] = NoOp
    /\ \A s \in Sections :
          (/\ Len(splitLog'.delivered[s]) > Len(splitLog.delivered[s])
           /\ splitLog'.delivered[s][Len(splitLog'.delivered[s])].type
                  = "WriteBuffer")
          => splitLog'.forward.split = s

\* C27: for a section's write the multiplexer first issues set_write_frame
\* on the real screen with the section's absolute frame, issues the real
\* write with the section's buffer and continue flag only in the
\* command_complete of that set_write_frame, and forwards write_complete
\* with the same buffer and result to that section only in the real
\* screen's write_complete, after clearing the current user and before
\* request_operation.
C27_WriteSequence ==
    [][/\ FrameIssuedFirst
       /\ WriteIssuedAfterCommandComplete
       /\ UserKeptWhileBusy
       /\ ForwardedAfterWriteComplete]_vars

\* The real screen completed the userspace section's write, the section
\* received it, and the kernel section's write was started.
C27_Witness ==
    /\ splitLog.forward = [split |-> "U", buf |-> 1, sameResult |-> TRUE,
                           userCleared |-> TRUE]
    /\ dev.op = "set_write_frame"
    /\ current_user.split = "K"
    /\ current_user.state = "WriteSetFrame"

-----------------------------------------------------------------------------
\* The order in which the two sections are served.

\* When the real screen's write_complete starts the userspace section's
\* operation, the kernel section holds no pending work.
KernelFirst ==
    [][(dev.op = "write" /\ dev' # dev /\ current_user'.split = "U")
       => pending'["K"] = NoOp]_vars

\* An operation queued by the userspace section is eventually started.
UserspaceEventuallyStarted ==
    (pending["U"] # NoOp) ~> (current_user.split = "U")

\* C28: the sections are drained fairly: the kernel section's operation is
\* started first when both hold pending work, and a queued userspace
\* operation is nevertheless eventually started even if the kernel section
\* submits a new operation from within each of its completion callbacks.
C28_FairDrain ==
    /\ KernelFirst
    /\ UserspaceEventuallyStarted

-----------------------------------------------------------------------------
\* The draw cursor of the GPU driver.

\* The position of a cursor in the frame's row-major order
CursorPosition(area) == area.off[2] * area.rect.width + area.off[1]

\* C29: the response to a RESOURCE_FLUSH of k pixels moves the draw cursor
\* k positions further in the row-major order of the frame, to the left
\* edge of the next row when it reaches the right edge, and makes the
\* remaining budget k smaller.
C29_CursorRowMajor ==
    [][(gpu_state = "DrawResourceFlush"
        /\ current_draw_area' # current_draw_area)
       => LET k == current_transfer_area_pixels.pixels
          IN /\ current_draw_area'.off[1] < current_draw_area.rect.width
             /\ CursorPosition(current_draw_area')
                    = CursorPosition(current_draw_area) + k
             /\ current_draw_area'.remaining
                    = current_draw_area.remaining - k]_vars

\* C30: while the device answers every command with OK_NODATA, no write
\* the driver accepted ends in a failed assertion, a division by zero or a
\* failed checked operation.
C30_AcceptedWriteCompletes ==
    gpuPanic => gpuLog.errResp


-----------------------------------------------------------------------------
\* Properties of the GPU driver's response handling.

\* The states in which the driver waits for the answer to a command, and
\* the pairs of state and ctrl_type that are the expected next step.
AwaitingStates ==
    InitializingStates \cup {"DrawResourceAttachBacking", "DrawTransferToHost2D",
                             "DrawResourceFlush", "DrawResourceDetachBacking"}

ExpectedResponse(r) == r.before \in AwaitingStates /\ r.type = "RespOkNoData"

\* C31: a response whose pair of driver state and ctrl_type is not the
\* expected next step stops the kernel: the driver has panicked, is still in
\* the state in which the response arrived, and has made no screen_is_ready
\* or write_complete callback because of it.
C31_UnexpectedResponseFatal ==
    (gpuLog.resp.type # "None" /\ ~ExpectedResponse(gpuLog.resp))
        => /\ gpuPanic
           /\ gpu_state = gpuLog.resp.before
           /\ gpuLog.ready = gpuLog.resp.ready
           /\ gpuLog.completed = gpuLog.resp.completed

\* An OK response arrives while the driver is Idle, and an error response
\* would be the other case.
C31_Witness ==
    /\ gpuPanic
    /\ gpuLog.resp.before \in {"Idle", "SettingWriteFrame"}
    /\ gpuLog.resp.type = "RespOkNoData"


-----------------------------------------------------------------------------
\* Properties of one credential check from start to the client's done.

\* The client is notified at most once for a started check, and once when the
\* policy has no check left to answer.
NotifiedOnce ==
    (chkLog.starts > 0 /\ chkLog.withPolicy) =>
        /\ Len(chkLog.done) <= 1
        /\ scripted_pending = -1 => Len(chkLog.done) = 1

\* The footers are submitted to the policy in the order of the region, none
\* of them twice.
SubmittedInOrder ==
    \A i, j \in 1..Len(chkLog.submitted) :
        i < j => chkLog.submitted[i] < chkLog.submitted[j]

\* While one binary is checked footer_index does not decrease.
FooterIndexIncreases ==
    chkLog'.starts = chkLog.starts => footer_index' >= footer_index

\* C32: with a policy that answers each check it starts, a check begun with
\* start ends: the policy is eventually left without a check to answer, and
\* the client has then been notified, exactly once; footer_index only
\* increases during the check, and each footer is submitted to the policy
\* at most once and in order.
C32_CheckTerminatesOnce ==
    /\ [](NotifiedOnce /\ SubmittedInOrder)
    /\ [][FooterIndexIncreases]_vars
    /\ (scripted_pending # -1) ~> (scripted_pending = -1)

\* Two footers were submitted one after the other, the policy passed the
\* first and failed on the second with an error, and the client was told.
C32_Witness ==
    /\ Len(chkLog.binary.footers) = 2
    /\ chkLog.binary.footers[1].answer = "Pass"
    /\ chkLog.binary.footers[2].answer = "Err"
    /\ chkLog.submitted = <<0, 1>>
    /\ footer_index = 2
    /\ scripted_pending = -1
    /\ Len(chkLog.done) = 1


-----------------------------------------------------------------------------
\* Properties of the size of the virtual LEDs' image.

\* The width of the image with LED glyphs of dimension d.
TotalWidth(i, d) ==
    LEFT_RIGTH_PADDING + get_led_width(i.screen_height) + TEXT_LEDS_PADDING
        + (i.num_leds * d) + (i.num_leds - 1) + LEFT_RIGTH_PADDING

\* The dimensions not above the available height with which the image fits.
FittingDimensions(i) ==
    {d \in 0..(i.screen_height - 2 * TOP_BOTTOM_PADDING) :
        TotalWidth(i, d) <= i.screen_width}

\* C34: get_size returns (width, d) where d is the largest dimension not
\* above SCREEN_HEIGHT - 2 * TOP_BOTTOM_PADDING with which the image fits
\* within SCREEN_WIDTH, and width is the width of the image with it.
C34_LargestFittingDimension ==
    (fn_call.fn = "get_size" /\ fn_result # NoResult
         /\ FittingDimensions(fn_call.input) # {}) =>
        /\ fn_result.kind = "Ok"
        /\ fn_result.led_dimension
               \in {PlainValue(d) : d \in FittingDimensions(fn_call.input)}
        /\ \A d \in FittingDimensions(fn_call.input) :
              d <= fn_result.led_dimension.plus
        /\ fn_result.width
               = TotalWidth(fn_call.input, fn_result.led_dimension.plus)
        /\ fn_result.width <= fn_call.input.screen_width


-----------------------------------------------------------------------------
\* Properties of the VirtIO input driver.

\* C35: after the driver has handled a used buffer of the event queue or of
\* the status queue, each of its receive buffers is posted to its queue
\* again: the three event buffers are in the event queue, the status buffer
\* is in the status queue, and the driver holds none of them.
C35_BuffersReposted ==
    vinput.log.op \in {"eventq", "statusq"} =>
        /\ {vinput.eventq[k] : k \in 1..Len(vinput.eventq)} = EventBuffers
        /\ vinput.statusq = <<StatusBuffer>>
        /\ vinput.event_buffer1 = NoBuf
        /\ vinput.event_buffer2 = NoBuf
        /\ vinput.event_buffer3 = NoBuf
        /\ vinput.status_buffer = NoBuf


-----------------------------------------------------------------------------
\* Properties of a refused write of the GPU driver.

\* The step is a call of write that returns an error: write is the
\* operation noted last, and neither a command was sent or answered nor a
\* deferred call dispatched.
WriteRefused ==
    /\ gpuLog'.call.op = "write"
    /\ gpuLog'.ret \in {"BUSY", "INVAL", "SIZE"}
    /\ ~gpuPanic'
    /\ UNCHANGED <<gpu_state, control_queue, pending_deferred_call_mask>>

\* C36: a write that returns BUSY, INVAL or SIZE leaves the draw area, the
\* draw cursor and the remaining-pixel budget as they were before the call.
C36_RefusedWriteKeepsCursor ==
    [][WriteRefused => current_draw_area' = current_draw_area]_vars


-----------------------------------------------------------------------------
\* Properties of the ECDSA verifier's accepted verifications.

\* C37: every verify that returned Ok is answered with verification_done,
\* once: there are never more answers than accepted calls, and when no
\* deferred call is left to dispatch every accepted call has been answered
\* and its buffers are back with the client, whatever was called between
\* the verify and the dispatch.
C37_AcceptedVerifyAnswered ==
    /\ ecdsaLog.delivered <= ecdsaLog.accepted
    /\ ~ecdsa_deferred_call =>
           /\ ecdsaLog.delivered = ecdsaLog.accepted
           /\ ecdsaLog.clientBufs = EcdsaBuffers


-----------------------------------------------------------------------------
\* Properties of the image of the virtual LEDs.

\* The screen has been reported ready, it holds no write of the LEDs, and
\* it shows an image written by them.
LedImageSettled ==
    /\ onled.initialized
    /\ onled.inFlight = NoImage
    /\ onled.shown # NoImage

\* C38: whenever ScreenOnLed is initialized and no write is outstanding,
\* the image last written to the screen shows LED i filled exactly when
\* read(i) returns true, for every LED index i.
C38_ImageMatchesRead ==
    LedImageSettled =>
        \A i \in LedIndices :
            onled.shown.leds[i].fill = led_read(onled, i).log.ret


-----------------------------------------------------------------------------
\* Properties of the screen split when the real screen refuses a command.

\* How many write operations of buffer b the sequence of operations holds.
WritesOf(ops, b) ==
    Cardinality({k \in 1..Len(ops) :
                    ops[k].type = "WriteBuffer" /\ ops[k].buf = b})

\* A write of buffer b by section s returned Ok and the section's client
\* has had no write_complete for it.
WriteUnanswered(s, b) ==
    WritesOf(splitLog.accepted[s], b) > WritesOf(splitLog.delivered[s], b)

\* The multiplexer or the real screen holds buffer b for section s: in the
\* section's pending cell, in current_user, or in the write of the screen.
BufferHeldFor(s, b) ==
    \/ pending[s] \in {OpWriteBuffer(b, c) : c \in BOOLEAN}
    \/ /\ current_user.split = s
       /\ current_user.state = "WriteSetFrame"
       /\ current_user.buf = b
    \/ /\ dev.op = "write"
       /\ dev.buf = b
       /\ splitLog.devOwner = s

\* C39: the buffer of a section's accepted write is not lost when the real
\* screen refuses the set_write_frame or the write issued for it: as long
\* as the client has had no write_complete for the write, the buffer is
\* still held for the section.  Stated for clients that do not call their
\* section while an operation of it is outstanding.
C39_RefusedWriteKeepsBuffer ==
    ~splitLog.okWhileOutstanding =>
        \A s \in Sections, b \in ClientBuffers :
            WriteUnanswered(s, b) => BufferHeldFor(s, b)


-----------------------------------------------------------------------------
\* Properties of the arithmetic of CommandRestrictions::command.

\* The last call was a command that translates its arguments: neither 0
\* nor the count command, from a process with permissions.
CommandTranslated ==
    /\ fn_call.fn = "command"
    /\ fn_call.command_num \notin {0, fn_call.command_num_num}
    /\ CallerPerm # 0

\* C40: command translates its arguments without arithmetic overflow: for
\* every arg1 and arg2 of the machine word the call returns (it does not
\* abort), the machine sums start + arg1 and start + arg2 are the
\* mathematical sums (they do not wrap), and a translated value outside the
\* permitted window yields NOSUPPORT.
C40_TranslationWithoutOverflow ==
    CommandTranslated =>
        LET perm == fn_call.permissions[CallerPerm]
            t1 == perm.permitted_arg1.start + fn_call.arg1
            t2 == perm.permitted_arg2.start + fn_call.arg2
        IN /\ fn_result.kind = "return"
           /\ UsizeAdd(perm.permitted_arg1.start, fn_call.arg1) = t1
           /\ UsizeAdd(perm.permitted_arg2.start, fn_call.arg2) = t2
           /\ (~RangeContains(perm.permitted_arg1, t1)
               \/ ~RangeContains(perm.permitted_arg2, t2)) =>
                  fn_result.ret = "NOSUPPORT"

=============================================================================
